---- MODULE Spec2Model ----
(***************************************************************************)
(* A model of the binary decoding core of ZeldasAdventureExtractor:        *)
(* StructStream (struct_stream.py), the resource tree decoder and the      *)
(* resource file system built on it (za_filesystem.py), the PointerArray   *)
(* of za_images.py and the sectors of the disc (cdi_filesystem.py).        *)
(*                                                                         *)
(* Byte strings are sequences of 0..255.  A Python exception raised by a   *)
(* constructor is modelled as a result whose ok field is FALSE and whose   *)
(* err field names the exception.                                          *)
(***************************************************************************)
EXTENDS Integers, Sequences, FiniteSets, TLC

Min(a, b) == IF a < b THEN a ELSE b

Max(a, b) == IF a > b THEN a ELSE b

\* b''.join(parts)
RECURSIVE Flatten(_)
Flatten(parts) == IF parts = <<>> THEN <<>> ELSE parts[1] \o Flatten(Tail(parts))

(***************************************************************************)
(* Python's bytes/list slice data[lo:hi] for integer lo, hi: a negative    *)
(* index counts from the end, then both are clamped to 0..len(data).       *)
(***************************************************************************)
PyIndex(n, i) == IF i < 0 THEN Max(0, n + i) ELSE Min(i, n)

SliceBetween(data, a, b) == IF a >= b THEN <<>> ELSE SubSeq(data, a + 1, b)

PySlice(data, lo, hi) ==
    SliceBetween(data, PyIndex(Len(data), lo), PyIndex(Len(data), hi))

(***************************************************************************)
(* struct: a format is a sequence of <<repeat, width>> items ("III" is     *)
(* three items <<1,4>>, "{}I".format(n) is the one item <<n,4>>).  Every   *)
(* stream of the decoder is built with endianPrefix=">", so fields are     *)
(* big-endian and unaligned.                                               *)
(***************************************************************************)
FmtI == <<1, 4>>

FmtH == <<1, 2>>

RECURSIVE calcsize(_)
calcsize(fmt) ==
    IF fmt = <<>> THEN 0 ELSE fmt[1][1] * fmt[1][2] + calcsize(Tail(fmt))

RECURSIVE BigEndian(_)
BigEndian(bytes) ==
    IF bytes = <<>> THEN 0
    ELSE BigEndian(SubSeq(bytes, 1, Len(bytes) - 1)) * 256 + bytes[Len(bytes)]

\* The fields of one format item read from the front of raw.
UnpackItem(item, raw) ==
    [k \in 1..item[1] |-> BigEndian(SubSeq(raw, (k - 1) * item[2] + 1, k * item[2]))]

RECURSIVE UnpackItems(_, _)
UnpackItems(fmt, raw) ==
    IF fmt = <<>> THEN <<>>
    ELSE UnpackItem(fmt[1], raw)
         \o UnpackItems(Tail(fmt), SubSeq(raw, fmt[1][1] * fmt[1][2] + 1, Len(raw)))

\* struct.unpack raises struct.error unless raw has exactly calcsize bytes.
unpack(fmt, raw) ==
    IF Len(raw) # calcsize(fmt)
    THEN [ok |-> FALSE, val |-> <<>>]
    ELSE [ok |-> TRUE, val |-> UnpackItems(fmt, raw)]

(***************************************************************************)
(* StructStream.  A stream value is the object's fields; an operation      *)
(* that changes the object returns the changed stream in field s, beside   *)
(* its return value ret (or ok and val, for a read that struct.unpack may  *)
(* refuse).                                                                *)
(***************************************************************************)
StructStream(data, cursor) == [data |-> data, cursor |-> cursor, peekAmount |-> 0]

len(s) == Max(0, Len(s.data) - s.cursor)

\* ret += b'0' * (count - len(ret)): the fill byte is the character '0'.
FillZeros(got, count, fillZeros) ==
    IF fillZeros /\ Len(got) < count
    THEN got \o [k \in 1..(count - Len(got)) |-> 48]
    ELSE got

peekRaw(s, count, fillZeros) ==
    [ret |-> FillZeros(PySlice(s.data, s.cursor, s.cursor + count), count, fillZeros),
     s   |-> [s EXCEPT !.peekAmount = count]]

takeRaw(s, count, fillZeros) ==
    [peekRaw(s, count, fillZeros) EXCEPT !.s.cursor = @ + count]

peekAll(s) == peekRaw(s, len(s), FALSE)

takeAll(s) == takeRaw(s, len(s), FALSE)

Unpacked(u, s) == [ok |-> u.ok, val |-> u.val, s |-> s]

PeekUnpack(fmt, p) == Unpacked(unpack(fmt, p.ret), p.s)

peek(s, fmt, fillZeros) ==
    IF fmt = <<>> THEN [ok |-> TRUE, val |-> <<>>, s |-> s]
    ELSE PeekUnpack(fmt, peekRaw(s, calcsize(fmt), fillZeros))

\* self._cursor += self._peekAmount
AdvancePeeked(p) == [p EXCEPT !.s.cursor = @ + p.s.peekAmount]

\* A peek that raised struct.error leaves take before it moves the cursor.
AdvanceUnpacked(p) == IF p.ok THEN AdvancePeeked(p) ELSE p

take(s, fmt, fillZeros) == AdvanceUnpacked(peek(s, fmt, fillZeros))

\* self._data.index(0, start): the position of the first 0 byte at or after
\* start, or -1 where Python raises ValueError.
IndexOfZero(data, start) ==
    IF \E k \in (start + 1)..Len(data) : data[k] = 0
    THEN (CHOOSE k \in (start + 1)..Len(data) :
             data[k] = 0 /\ \A j \in (start + 1)..(k - 1) : data[j] # 0) - 1
    ELSE -1

StripTerminator(p, includeTerminator) ==
    IF includeTerminator THEN p ELSE [p EXCEPT !.ret = PySlice(@, 0, -1)]

RestOfBuffer(s, rest) == [ret |-> rest, s |-> [s EXCEPT !.peekAmount = Len(rest)]]

\* A string read that stops at the terminator instead of behind it.
PeekStringToTerminator(s, z, includeTerminator) ==
    IF z >= 0
    THEN peekRaw(s, z - s.cursor, FALSE)
    ELSE RestOfBuffer(s, PySlice(s.data, s.cursor, Len(s.data)))

PeekString(s, z, includeTerminator) ==
    IF z >= 0
    THEN StripTerminator(peekRaw(s, z - s.cursor + 1, FALSE), includeTerminator)
    ELSE RestOfBuffer(s, PySlice(s.data, s.cursor, Len(s.data)))

peekNullTermString(s, includeTerminator) ==
    PeekString([s EXCEPT !.cursor = Max(@, 0)],
               IndexOfZero(s.data, Max(s.cursor, 0)), includeTerminator)

takeNullTermString(s, includeTerminator) ==
    AdvancePeeked(peekNullTermString(s, includeTerminator))

skip(s, count) == [s EXCEPT !.cursor = Max(0, @ + count)]

seek(s, offset) == [s EXCEPT !.cursor = Max(0, offset)]

copy(s) == StructStream(s.data, s.cursor)

\* A fork that shares the whole buffer, positioned behind the skipped bytes.
ForkAtPosition(s, skipBytes) == StructStream(s.data, s.cursor + skipBytes)

fork(s, skipBytes) ==
    StructStream(PySlice(s.data, s.cursor + skipBytes, Len(s.data)), 0)

ForkOf(r) == [ret |-> StructStream(r.ret, 0), s |-> r.s]

peekFork(s, count, fillZeros) == ForkOf(peekRaw(s, count, fillZeros))

takeFork(s, count, fillZeros) == ForkOf(takeRaw(s, count, fillZeros))

\* str(stream): the bytes the stream still has to give, data[cursor:].
Remaining(s) == PySlice(s.data, s.cursor, Len(s.data))

(***************************************************************************)
(* The resource tree (za_filesystem.py).  A constructor returns            *)
(* [ok, node, s]: whether it returned normally, the object built, and the  *)
(* caller's stream as the constructor left it.  A constructor is written   *)
(* as a chain of definitions, one per stretch of its body, each handed     *)
(* the locals computed so far.                                             *)
(***************************************************************************)
Raise(err, s) == [ok |-> FALSE, node |-> [kind |-> "error", err |-> err], s |-> s]

Header(h) ==
    IF ~h.ok THEN Raise("struct.error", h.s)
    ELSE [ok   |-> TRUE,
          node |-> [kind |-> "ResourceTree", tag |-> h.val[1], size |-> h.val[2]],
          s    |-> h.s]

\* ResourceTree.__init__: the shared (tag, size) header.
ResourceTree(stream) == Header(take(stream, <<FmtI, FmtI>>, FALSE))

(* ResourceTreeSet *)

OffsetList(t) == [ok |-> t.ok, val |-> t.val]

\* The offset table of a Set: count > 1, count == 1 and count == 0.
SetElementOffsets(baseData, count) ==
    IF count > 1 THEN OffsetList(take(copy(baseData), << <<count, 4>> >>, FALSE))
    ELSE IF count = 1 THEN OffsetList(take(copy(baseData), <<FmtI>>, FALSE))
    ELSE [ok |-> TRUE, val |-> <<>>]

\* The body of the element loop once elementStart is known; i counts from 1.
SetElementFrom(elementStart, elementOffsets, i, baseOffset, listOffset) ==
    IF i - 1 < Len(elementOffsets) - 1
    THEN takeFork(elementStart, elementOffsets[i + 1] - elementOffsets[i], FALSE).ret
    ELSE IF listOffset < baseOffset
    THEN takeFork(elementStart,
                  (baseOffset - listOffset) - elementOffsets[i], FALSE).ret
    ELSE elementStart

SetElement(listData, elementOffsets, i, baseOffset, listOffset) ==
    SetElementFrom(skip(copy(listData), elementOffsets[i]),
                   elementOffsets, i, baseOffset, listOffset)

SetElements(header, f, listData, offs) ==
    IF ~offs.ok THEN Raise("struct.error", f.s)
    ELSE [ok   |-> TRUE,
          node |-> [kind       |-> "ResourceTreeSet",
                    tag        |-> header.tag,
                    size       |-> header.size,
                    baseOffset |-> f.val[2],
                    listOffset |-> f.val[3],
                    elements   |->
                        [i \in 1..Len(offs.val) |->
                            SetElement(listData, offs.val, i, f.val[2], f.val[3])]],
          s    |-> f.s]

\* count, self.baseOffset, self.listOffset = stream.take("III") and the two
\* views baseData and listData.
SetFields(originalStream, header, f) ==
    IF ~f.ok THEN Raise("struct.error", f.s)
    ELSE SetElements(header, f,
                     skip(copy(originalStream), f.val[3]),
                     SetElementOffsets(skip(copy(originalStream), f.val[2]), f.val[1]))

SetHeader(originalStream, h) ==
    IF ~h.ok THEN h
    ELSE IF h.node.tag # 2 THEN Raise("AssertionError", h.s)
    ELSE SetFields(originalStream, h.node, take(h.s, <<FmtI, FmtI, FmtI>>, FALSE))

ResourceTreeSet(stream) == SetHeader(copy(stream), ResourceTree(stream))

(* ResourceTreeArray *)

\* [elementData.takeFork(elementSize) for _ in range(elementCount)]
RECURSIVE ArrayElements(_, _, _)
ArrayElements(elementData, elementSize, elementCount) ==
    IF elementCount <= 0 THEN <<>>
    ELSE <<takeFork(elementData, elementSize, FALSE).ret>>
         \o ArrayElements(takeFork(elementData, elementSize, FALSE).s,
                          elementSize, elementCount - 1)

ArrayFields(frame, header, f) ==
    IF ~f.ok THEN Raise("struct.error", f.s)
    ELSE [ok   |-> TRUE,
          node |-> [kind         |-> "ResourceTreeArray",
                    tag          |-> header.tag,
                    size         |-> header.size,
                    elementCount |-> f.val[1],
                    elementSize  |-> f.val[2],
                    elements     |->
                        ArrayElements(
                            skip(takeFork(frame, header.size, FALSE).ret, f.val[3]),
                            f.val[2], f.val[1])],
          s    |-> f.s]

ArrayHeader(originalStream, h) ==
    IF ~h.ok THEN h
    ELSE IF h.node.tag # 1 THEN Raise("AssertionError", h.s)
    ELSE ArrayFields(takeFork(originalStream, h.node.size, FALSE).ret,
                     h.node, take(h.s, <<FmtI, FmtI, FmtI>>, FALSE))

ResourceTreeArray(stream) == ArrayHeader(copy(stream), ResourceTree(stream))

(***************************************************************************)
(* A Python dict, kept as the sequence of its <<key, value>> items in      *)
(* insertion order.                                                        *)
(***************************************************************************)
DictHas(d, key) == \E i \in 1..Len(d) : d[i][1] = key

DictGet(d, key) == d[CHOOSE i \in 1..Len(d) : d[i][1] = key][2]

DictSet(d, key, value) ==
    IF DictHas(d, key)
    THEN [i \in 1..Len(d) |-> IF d[i][1] = key THEN <<key, value>> ELSE d[i]]
    ELSE Append(d, <<key, value>>)

DictKeys(d) == [i \in 1..Len(d) |-> d[i][1]]

(* ResourceTreeNode *)

\* for i in range(len(names)): self.children[names[i]] = children[i]
RECURSIVE CombineChildren(_, _, _)
CombineChildren(names, children, n) ==
    IF n = 0 THEN <<>>
    ELSE DictSet(CombineChildren(names, children, n - 1), names[n], children[n])

\* bytes.decode('ascii') raises UnicodeDecodeError on a byte above 127.
IsAscii(bytes) == \A k \in 1..Len(bytes) : bytes[k] < 128

RECURSIVE parseFromStream(_)

NodeCombine(header, f, children, names) ==
    IF f.val[2] # 0 /\ \E i \in 1..Len(names) : ~IsAscii(names[i])
    THEN Raise("UnicodeDecodeError", f.s)
    ELSE IF Len(names) > Len(children) THEN Raise("IndexError", f.s)
    ELSE [ok   |-> TRUE,
          node |-> [kind       |-> "ResourceTreeNode",
                    tag        |-> header.tag,
                    size       |-> header.size,
                    childCount |-> f.val[1],
                    hasNames   |-> f.val[2] # 0,
                    names      |-> names,
                    childList  |-> children,
                    children   |-> CombineChildren(names, children, Len(names))],
          s    |-> f.s]

\* [s.copy().takeNullTermString().decode('ascii') for s in nameListNode.elements]
DecodeNames(elements) ==
    [i \in 1..Len(elements) |-> takeNullTermString(copy(elements[i]), FALSE).ret]

\* A Node that numbers its children by the childCount field of its header
\* instead of by the children it decoded.
NodeNamesByChildCount(header, f, children, nameListNode) ==
    IF ~nameListNode.ok THEN Raise(nameListNode.node.err, f.s)
    ELSE NodeCombine(header, f, children,
                     IF f.val[2] = 0
                     THEN [i \in 1..f.val[1] |-> i - 1]
                     ELSE DecodeNames(nameListNode.node.elements))

NodeNames(header, f, children, nameListNode) ==
    IF ~nameListNode.ok THEN Raise(nameListNode.node.err, f.s)
    ELSE NodeCombine(header, f, children,
                     IF f.val[2] = 0
                     THEN [i \in 1..Len(children) |-> i - 1]
                     ELSE DecodeNames(nameListNode.node.elements))

NodeChildren(header, f, nameListStream, parsed) ==
    IF \E i \in 1..Len(parsed) : ~parsed[i].ok THEN Raise("child", f.s)
    ELSE NodeNames(header, f, [i \in 1..Len(parsed) |-> parsed[i].node],
                   IF f.val[2] = 0
                   THEN [ok |-> TRUE, node |-> [elements |-> <<>>]]
                   ELSE ResourceTreeSet(nameListStream))

NodeChildList(header, f, nameListStream, childListNode) ==
    IF ~childListNode.ok THEN Raise(childListNode.node.err, f.s)
    ELSE NodeChildren(header, f, nameListStream,
                      [i \in 1..Len(childListNode.node.elements) |->
                          parseFromStream(childListNode.node.elements[i])])

\* The view of the name list: cut at the child list when that comes later.
NameListStream(frame, nameListNodeOffset, childListNodeOffset) ==
    IF nameListNodeOffset < childListNodeOffset
    THEN takeFork(skip(copy(frame), nameListNodeOffset),
                  childListNodeOffset - nameListNodeOffset, FALSE).ret
    ELSE skip(copy(frame), nameListNodeOffset)

\* The view of the child list: cut at the name list unless that comes first.
ChildListStream(frame, nameListNodeOffset, childListNodeOffset) ==
    IF nameListNodeOffset < childListNodeOffset
    THEN skip(copy(frame), childListNodeOffset)
    ELSE takeFork(skip(copy(frame), childListNodeOffset),
                  nameListNodeOffset - childListNodeOffset, FALSE).ret

NodeFields(frame, header, f) ==
    IF ~f.ok THEN Raise("struct.error", f.s)
    ELSE NodeChildList(header, f,
                       NameListStream(frame, f.val[2], f.val[3]),
                       ResourceTreeSet(ChildListStream(frame, f.val[2], f.val[3])))

NodeHeader(originalStream, h) ==
    IF ~h.ok THEN h
    ELSE IF h.node.tag # 0 THEN Raise("AssertionError", h.s)
    ELSE NodeFields(takeFork(originalStream, h.node.size, FALSE).ret,
                    h.node, take(h.s, <<FmtI, FmtI, FmtI>>, FALSE))

ResourceTreeNode(stream) == NodeHeader(copy(stream), ResourceTree(stream))

\* A dispatcher that rejects the tags it does not know.
DispatchKnownOnly(stream, t) ==
    IF ~t.ok THEN Raise("struct.error", t.s)
    ELSE IF t.val[1] = 0 THEN ResourceTreeNode(t.s)
    ELSE IF t.val[1] = 1 THEN ResourceTreeArray(t.s)
    ELSE IF t.val[1] = 2 THEN ResourceTreeSet(t.s)
    ELSE Raise("ValueError", t.s)

Dispatch(stream, t) ==
    IF ~t.ok THEN Raise("struct.error", t.s)
    ELSE IF t.val[1] = 0 THEN ResourceTreeNode(t.s)
    ELSE IF t.val[1] = 1 THEN ResourceTreeArray(t.s)
    ELSE IF t.val[1] = 2 THEN ResourceTreeSet(t.s)
    ELSE ResourceTree(t.s)

parseFromStream(stream) == Dispatch(stream, peek(stream, <<FmtI>>, FALSE))

(***************************************************************************)
(* ResourceFileSystem (za_filesystem.py).  A str is the sequence of its    *)
(* character codes; a reference to a folder object is the key under which  *)
(* subFiles holds it; a missing attribute is a missing record field; None  *)
(* and an optional argument left out are the empty sequence, a given value *)
(* x is <<x>>.                                                             *)
(***************************************************************************)
Fail(err) == [ok |-> FALSE, err |-> err]

Value(val) == [ok |-> TRUE, val |-> val]

\* The keys "r", "l", "v", "a", "d" of the resource map.
KeyR == <<114>>

KeyL == <<108>>

KeyV == <<118>>

KeyA == <<97>>

KeyD == <<100>>

\* 0xFFFF: the folder has no record of the kind.
NoIndex == 65535

RECURSIVE simplify(_)

SimplifyChildren(node, vals) ==
    IF \E i \in 1..Len(vals) : ~vals[i].ok THEN Fail("NotImplementedError")
    ELSE Value([kind  |-> "dict",
                named |-> node.hasNames,
                items |-> [i \in 1..Len(vals) |-> <<node.children[i][1], vals[i].val>>]])

\* simplify() of a Node is a dict, of a Set or an Array its list of element
\* streams; the base class raises NotImplementedError.
simplify(node) ==
    IF node.kind = "ResourceTreeNode"
    THEN SimplifyChildren(node, [i \in 1..Len(node.children) |->
                                    simplify(node.children[i][2])])
    ELSE IF node.kind \in {"ResourceTreeSet", "ResourceTreeArray"}
    THEN Value([kind |-> "list", elements |-> node.elements])
    ELSE Fail("NotImplementedError")

\* name in root
RootHas(root, name) == root.kind = "dict" /\ root.named /\ DictHas(root.items, name)

(* ResourceFileSystemFolder *)

FolderWithSizes(name, head, t) ==
    IF ~t.ok THEN Fail("struct.error")
    ELSE Value([name             |-> name,
                channel          |-> head[1],
                blockOffset      |-> head[2],
                sectors          |-> <<>>,
                nextFile         |-> <<>>,
                cachedRecordData |-> <<>>,
                videoSizesIndex  |-> t.val[1],
                audioSizesIndex  |-> t.val[2],
                dataSizesIndex   |-> t.val[3],
                videoSizes       |-> <<>>,
                audioSizes       |-> <<>>,
                dataSizes        |-> <<>>])

FolderHead(name, t) ==
    IF ~t.ok THEN Fail("struct.error")
    ELSE IF len(t.s) = 6
    THEN FolderWithSizes(name, t.val, take(t.s, <<FmtH, FmtH, FmtH>>, FALSE))
    ELSE Value([name             |-> name,
                channel          |-> t.val[1],
                blockOffset      |-> t.val[2],
                sectors          |-> <<>>,
                nextFile         |-> <<>>,
                cachedRecordData |-> <<>>])

ResourceFileSystemFolder(name, stream) ==
    FolderHead(name, take(stream, <<FmtH, FmtI>>, FALSE))

\* The *SizesIndex and *Sizes attributes exist only for a 12-byte descriptor.
HasSizes(f) == "videoSizesIndex" \in DOMAIN f

getSizeIndex(f, name) ==
    IF name = KeyV THEN f.videoSizesIndex
    ELSE IF name = KeyA THEN f.audioSizesIndex
    ELSE f.dataSizesIndex

setSizes(f, name, sizes) ==
    IF name = KeyV THEN [f EXCEPT !.videoSizes = sizes]
    ELSE IF name = KeyA THEN [f EXCEPT !.audioSizes = sizes]
    ELSE [f EXCEPT !.dataSizes = sizes]

getSizes(f, name) ==
    IF name = KeyV THEN f.videoSizes
    ELSE IF name = KeyA THEN f.audioSizes
    ELSE f.dataSizes

\* A filter that lets the sectors of every kind through.
Unfiltered(sectors, kind) == sectors

\* [s for s in self.sectors if kind == None or kind == s.kind]
Filtered(sectors, kind) == SelectSeq(sectors, LAMBDA s : kind = <<>> \/ kind = <<s.kind>>)

JoinData(sectors) == Flatten([i \in 1..Len(sectors) |-> sectors[i].data])

getBytes(f, start, end, kind) ==
    JoinData(PySlice(Filtered(f.sectors, kind), start,
                     IF end = <<>> THEN Len(f.sectors) ELSE end[1]))

RECURSIVE sum(_)
sum(xs) == IF xs = <<>> THEN 0 ELSE xs[1] + sum(Tail(xs))

\* kind[0]
FirstLetter(kind) ==
    IF kind = "video" THEN KeyV ELSE IF kind = "audio" THEN KeyA ELSE KeyD

\* self._cachedRecordData[kind][index] = data; return it
RecordStore(f, index, kind, data) ==
    [ok  |-> TRUE,
     val |-> data,
     f   |-> [f EXCEPT !.cachedRecordData =
                  DictSet(@, kind, DictSet(DictGet(@, kind), index, data))]]

\* sizes[index] raises IndexError outside -len..len-1; a negative index
\* counts from the end.
RecordRead(f, index, kind, sizes) ==
    IF index >= Len(sizes) \/ index < -Len(sizes)
    THEN [ok |-> FALSE, val |-> "IndexError", f |-> f]
    ELSE RecordStore(f, index, kind,
                     getBytes(f, sum(PySlice(sizes, 0, index)),
                              <<sum(PySlice(sizes, 0, index))
                                + sizes[(index % Len(sizes)) + 1]>>,
                              <<kind>>))

RecordLookup(f, index, kind) ==
    IF DictHas(DictGet(f.cachedRecordData, kind), index)
    THEN [ok |-> TRUE, val |-> DictGet(DictGet(f.cachedRecordData, kind), index), f |-> f]
    ELSE IF ~HasSizes(f) THEN [ok |-> FALSE, val |-> "AttributeError", f |-> f]
    ELSE RecordRead(f, index, kind, getSizes(f, FirstLetter(kind)))

\* if kind not in self._cachedRecordData: self._cachedRecordData[kind] = {}
EnsureKind(f, kind) ==
    IF DictHas(f.cachedRecordData, kind) THEN f
    ELSE [f EXCEPT !.cachedRecordData = DictSet(@, kind, <<>>)]

\* ResourceFileSystemFolder.getRecord: [ok, val, f], f being the folder as
\* the call leaves it.
getRecord(f, index, kind) == RecordLookup(EnsureKind(f, kind), index, kind)

(* ResourceFileSystem.__init__ *)

LabelsOf(elements) ==
    IF \E i \in 1..Len(elements) : ~IsAscii(peekNullTermString(elements[i], FALSE).ret)
    THEN Fail("UnicodeDecodeError")
    ELSE Value([i \in 1..Len(elements) |-> peekNullTermString(elements[i], FALSE).ret])

LenOf(child) == IF child.kind = "list" THEN Len(child.elements) ELSE Len(child.items)

\* Parse the labels, or generate number labels.
SubFileNames(root) ==
    IF RootHas(root, KeyL)
    THEN IF DictGet(root.items, KeyL).kind = "list"
         THEN LabelsOf(DictGet(root.items, KeyL).elements)
         ELSE IF DictGet(root.items, KeyL).items = <<>> THEN Value(<<>>)
         ELSE Fail("AttributeError")
    ELSE Value([i \in 1..LenOf(DictGet(root.items, KeyR)) |-> i - 1])

PutSubFile(subFiles, name, folder) ==
    IF ~folder.ok THEN folder ELSE Value(DictSet(subFiles, name, folder.val))

\* self.subFiles[name] = ResourceFileSystemFolder(name, root["r"][i])
AddSubFile(sofar, name, r, n) ==
    IF ~sofar.ok THEN sofar
    ELSE IF r.kind # "list" THEN Fail("AttributeError")
    ELSE IF n > Len(r.elements) THEN Fail("IndexError")
    ELSE PutSubFile(sofar.val, name, ResourceFileSystemFolder(name, r.elements[n]))

RECURSIVE BuildSubFiles(_, _, _)
BuildSubFiles(names, r, n) ==
    IF n = 0 THEN Value(<<>>)
    ELSE AddSubFile(BuildSubFiles(names, r, n - 1), names[n], r, n)

\* list.sort(key=lambda f: self.subFiles[f].blockOffset) is stable: a name
\* goes after every name whose key is not larger.
RECURSIVE InsertByBlockOffset(_, _, _)
InsertByBlockOffset(sorted, name, subFiles) ==
    IF sorted = <<>> THEN <<name>>
    ELSE IF DictGet(subFiles, sorted[1]).blockOffset <= DictGet(subFiles, name).blockOffset
    THEN <<sorted[1]>> \o InsertByBlockOffset(Tail(sorted), name, subFiles)
    ELSE <<name>> \o sorted

RECURSIVE SortByBlockOffset(_, _)
SortByBlockOffset(names, subFiles) ==
    IF names = <<>> THEN <<>>
    ELSE InsertByBlockOffset(SortByBlockOffset(SubSeq(names, 1, Len(names) - 1), subFiles),
                             names[Len(names)], subFiles)

\* A link that gives a folder the first sector of the next folder as well.
LinkFolderInclusive(subFiles, name, nextName, sectors) ==
    DictSet(subFiles, name,
            [DictGet(subFiles, name) EXCEPT
                !.nextFile = <<nextName>>,
                !.sectors  = PySlice(sectors, DictGet(subFiles, name).blockOffset,
                                     DictGet(subFiles, nextName).blockOffset + 1)])

\* subFile.nextFile = nextSubFile
\* subFile.sectors = realFile.sectors[subFile.blockOffset:endBlock]
LinkFolder(subFiles, name, nextName, sectors) ==
    DictSet(subFiles, name,
            [DictGet(subFiles, name) EXCEPT
                !.nextFile = <<nextName>>,
                !.sectors  = PySlice(sectors, DictGet(subFiles, name).blockOffset,
                                     DictGet(subFiles, nextName).blockOffset)])

\* for i in range(len(self.sortedFiles) - 1), the first n passes.
RECURSIVE LinkFolders(_, _, _, _)
LinkFolders(subFiles, sortedFiles, sectors, n) ==
    IF n <= 0 THEN subFiles
    ELSE LinkFolder(LinkFolders(subFiles, sortedFiles, sectors, n - 1),
                    sortedFiles[n], sortedFiles[n + 1], sectors)

\* lastSubFile.sectors = realFile.sectors[lastSubFile.blockOffset:]
LinkLast(subFiles, name, sectors) ==
    DictSet(subFiles, name,
            [DictGet(subFiles, name) EXCEPT
                !.sectors = PySlice(sectors, DictGet(subFiles, name).blockOffset,
                                    Len(sectors))])

RECURSIVE SizeLoop(_, _, _, _, _)

\* nextIndex, for a folder that is not the last one
NextIndex(nextF, sizes, name) ==
    IF getSizeIndex(nextF, name) = NoIndex THEN Len(sizes) ELSE getSizeIndex(nextF, name)

\* f._setSizes(name, sizes[thisIndex:nextIndex]), and on to the next pass
SizeSlice(subFiles, sortedFiles, sizes, name, i, f, nextIndex) ==
    SizeLoop(DictSet(subFiles, sortedFiles[i],
                     setSizes(f, name, PySlice(sizes, getSizeIndex(f, name), nextIndex))),
             sortedFiles, sizes, name, i + 1)

\* One pass of the loop of handleSizeArray, f = self.sortedFiles[i].
SizePass(subFiles, sortedFiles, sizes, name, i, f) ==
    IF ~HasSizes(f) THEN Fail("AttributeError")
    ELSE IF getSizeIndex(f, name) = NoIndex THEN Value(subFiles)
    ELSE IF i = Len(sortedFiles)
    THEN SizeSlice(subFiles, sortedFiles, sizes, name, i, f, Len(sizes))
    ELSE IF ~HasSizes(DictGet(subFiles, sortedFiles[i + 1])) THEN Fail("AttributeError")
    ELSE SizeSlice(subFiles, sortedFiles, sizes, name, i, f,
                   NextIndex(DictGet(subFiles, sortedFiles[i + 1]), sizes, name))

\* for i in range(len(self.sortedFiles)), from pass i on (i counts from 1).
SizeLoop(subFiles, sortedFiles, sizes, name, i) ==
    IF i > Len(sortedFiles) THEN Value(subFiles)
    ELSE SizePass(subFiles, sortedFiles, sizes, name, i, DictGet(subFiles, sortedFiles[i]))

\* sizes = list(root[name][0].takeAll())
SizeArray(subFiles, sortedFiles, name, child) ==
    IF child.kind # "list" THEN Fail("AttributeError")
    ELSE IF child.elements = <<>> THEN Fail("IndexError")
    ELSE SizeLoop(subFiles, sortedFiles, takeAll(child.elements[1]).ret, name, 1)

handleSizeArray(root, subFiles, sortedFiles, name) ==
    IF ~subFiles.ok THEN subFiles
    ELSE IF ~RootHas(root, name) THEN subFiles
    ELSE SizeArray(subFiles.val, sortedFiles, name, DictGet(root.items, name))

\* A constructor that raised leaves no object: [ok, err, s], s the map
\* stream as parseFromStream left it.
RfsDone(s, sortedFiles, subFiles) ==
    IF ~subFiles.ok THEN [ok |-> FALSE, err |-> subFiles.err, s |-> s]
    ELSE [ok |-> TRUE, subFiles |-> subFiles.val, sortedFiles |-> sortedFiles, s |-> s]

RfsSizes(root, s, sortedFiles, subFiles) ==
    RfsDone(s, sortedFiles,
            handleSizeArray(root,
                handleSizeArray(root,
                    handleSizeArray(root, Value(subFiles), sortedFiles, KeyV),
                    sortedFiles, KeyA),
                sortedFiles, KeyD))

RfsSorted(root, sectors, s, subFiles, sortedFiles) ==
    IF sortedFiles = <<>> THEN [ok |-> FALSE, err |-> "IndexError", s |-> s]
    ELSE RfsSizes(root, s, sortedFiles,
                  LinkLast(LinkFolders(subFiles, sortedFiles, sectors, Len(sortedFiles) - 1),
                           sortedFiles[Len(sortedFiles)], sectors))

RfsFolders(root, sectors, s, names, subFiles) ==
    IF ~subFiles.ok THEN [ok |-> FALSE, err |-> subFiles.err, s |-> s]
    ELSE RfsSorted(root, sectors, s, subFiles.val, SortByBlockOffset(names, subFiles.val))

RfsNames(root, sectors, s, names) ==
    IF ~names.ok THEN [ok |-> FALSE, err |-> names.err, s |-> s]
    ELSE RfsFolders(root, sectors, s, names.val,
                    BuildSubFiles(names.val, DictGet(root.items, KeyR), Len(names.val)))

RfsRoot(root, sectors, s) ==
    IF ~root.ok THEN [ok |-> FALSE, err |-> root.err, s |-> s]
    ELSE IF ~RootHas(root.val, KeyR) THEN [ok |-> FALSE, err |-> "AssertionError", s |-> s]
    ELSE RfsNames(root.val, sectors, s, SubFileNames(root.val))

RfsParsed(p, sectors) ==
    IF ~p.ok THEN [ok |-> FALSE, err |-> p.node.err, s |-> p.s]
    ELSE RfsRoot(simplify(p.node), sectors, p.s)

ResourceFileSystem(stream, realFile) == RfsParsed(parseFromStream(stream), realFile.sectors)

(***************************************************************************)
(* State.  stream is the stream handed to a decoder or to the file system  *)
(* constructor (an object the callee advances), input that stream as it    *)
(* was on entry, call the operation called last, tree what a tree decoder  *)
(* returned.  realFile is the CdiFile whose sectors the file system        *)
(* shares out, rfs the ResourceFileSystem object once constructed, and     *)
(* got the arguments and outcome of the latest getRecord, n counting the   *)
(* calls made.                                                             *)
(***************************************************************************)
VARIABLES pc, call, input, stream, tree, realFile, rfs, got, child, last, cdi

vars == <<pc, call, input, stream, tree, realFile, rfs, got, child, last, cdi>>

NoTree == [ok |-> FALSE, node |-> [kind |-> "none"]]

NoFile == [sectors |-> <<>>]

NoRfs == [ok |-> FALSE, err |-> "none"]

NoRecord == [n |-> 0, folder |-> <<>>, index |-> 0, kind |-> "none",
             ok |-> FALSE, val |-> <<>>]

\* No second cursor, no stream operation and no disc operation yet.
NoStream == [made |-> FALSE]

NoRead == [op |-> "none"]

NoDisc == [op |-> "none"]

(***************************************************************************)
(* Inputs: byte buffers laid out as the decoders read them, with every     *)
(* field drawn independently from a small set, so that truncated data,     *)
(* decreasing offsets and mismatched counts occur among them.              *)
(***************************************************************************)
MaxCount == 3

MaxOffset == 2

MaxData == 3

MaxStride == 2

Word(x) ==
    << (x \div 16777216) % 256, (x \div 65536) % 256, (x \div 256) % 256, x % 256 >>

RECURSIVE Words(_)
Words(xs) == IF xs = <<>> THEN <<>> ELSE Word(xs[1]) \o Words(Tail(xs))

\* n payload bytes, pairwise distinct and none of them 0.  Every byte a
\* decoder may read as part of a 4-byte field is below 128, so that the
\* field stays below 2^31.
DataBytes(n) == [k \in 1..n |-> 100 + k]

Junk(n) == [k \in 1..n |-> 85]

SeqsUpTo(S, n) == UNION {[1..k -> S] : k \in 0..n}

\* A Set whose offset table directly follows the header.
SetTableFirst(listOffset, offs, dataLen) ==
    Words(<<2, 20 + 4 * Len(offs), Len(offs), 20, listOffset>>)
    \o Words(offs) \o DataBytes(dataLen)

\* A Set whose element data directly follows the header, then the table.
SetDataFirst(offs, dataLen, padLen) ==
    Words(<<2, 20 + dataLen + 4 * Len(offs), Len(offs), 20 + dataLen, 20>>)
    \o DataBytes(dataLen) \o Words(offs) \o Junk(padLen)

SetBuffers ==
    {SetTableFirst(l, offs, n) :
        l \in {20, 21, 32}, offs \in SeqsUpTo(0..MaxOffset, MaxCount), n \in 0..MaxData}
    \cup
    {SetTableFirst(20 + 4 * Len(offs), offs, n) :
        offs \in SeqsUpTo(0..MaxOffset, MaxCount), n \in 0..MaxData}
    \cup
    {SetDataFirst(offs, n, p) :
        offs \in SeqsUpTo(0..MaxOffset, MaxCount), n \in 0..MaxData, p \in {0, 2}}

ArrayBuffer(size, elementCount, elementSize, offset, dataLen) ==
    Words(<<1, size, elementCount, elementSize, offset>>) \o DataBytes(dataLen)

ArrayBuffers ==
    {ArrayBuffer(20 + n + d, c, w, o, n) :
        d \in {-1, 0, 1}, c \in 0..MaxCount, w \in 0..MaxStride,
        o \in {19, 20, 21}, n \in 0..MaxData}

\* A header with an unknown tag, whole or cut short.
GenericBuffers ==
    {PySlice(Words(<<tag, size>>) \o Junk(2), 0, n) :
        tag \in {0, 1, 2, 3, 7, 2147483647}, size \in {0, 8}, n \in 0..10}

MaxNames == 2

MaxChildren == 2

\* A well-formed Set holding the given elements back to back, table first.
RECURSIVE StartOffsets(_, _)
StartOffsets(blobs, at) ==
    IF blobs = <<>> THEN <<>>
    ELSE <<at>> \o StartOffsets(Tail(blobs), at + Len(blobs[1]))

SetOf(blobs) ==
    Words(<<2, 20 + 4 * Len(blobs), Len(blobs), 20, 20 + 4 * Len(blobs)>>)
    \o Words(StartOffsets(blobs, 0)) \o Flatten(blobs)

\* The name list entries "a" and "b", each with its terminator.
NameBlob(k) == <<96 + k, 0>>

\* Children: an unknown-tag node, an Array of one 2-byte element, and a Node
\* without names and without children.
ChildBlob(k) ==
    IF k = 1 THEN Words(<<7, 8>>)
    ELSE IF k = 2 THEN Words(<<1, 22, 1, 2, 20>>) \o DataBytes(2)
    ELSE Words(<<0, 40, 0, 0, 20>>) \o Words(<<2, 20, 0, 20, 20>>)

NodeLayout(size, childCount, nameListNodeOffset, childListNodeOffset, body) ==
    Words(<<0, size, childCount, nameListNodeOffset, childListNodeOffset>>) \o body

\* A Node without a name list: the child list follows the header.
NodeUnnamed(sizeDelta, childCount, childSet) ==
    NodeLayout(20 + Len(childSet) + sizeDelta, childCount, 0, 20, childSet)

\* A Node whose name list comes before (namesFirst) or after its child list.
NodeNamed(sizeDelta, childCount, namesFirst, nameSet, childSet) ==
    IF namesFirst
    THEN NodeLayout(20 + Len(nameSet) + Len(childSet) + sizeDelta, childCount,
                    20, 20 + Len(nameSet), nameSet \o childSet)
    ELSE NodeLayout(20 + Len(nameSet) + Len(childSet) + sizeDelta, childCount,
                    20 + Len(childSet), 20, childSet \o nameSet)

NameSets == {SetOf([i \in 1..Len(ns) |-> NameBlob(ns[i])]) :
                ns \in SeqsUpTo(1..2, MaxNames)}

ChildSets == {SetOf([i \in 1..Len(ks) |-> ChildBlob(ks[i])]) :
                ks \in SeqsUpTo(1..3, MaxChildren)}

NodeBuffers ==
    {NodeUnnamed(d, c, cs) : d \in {-1, 0}, c \in {0, MaxChildren}, cs \in ChildSets}
    \cup
    {NodeNamed(d, c, nf, ns, cs) :
        d \in {-1, 0}, c \in {0, MaxChildren}, nf \in BOOLEAN,
        ns \in NameSets, cs \in ChildSets}

TreeInitFrom(buffers) ==
    /\ pc = "ready"
    /\ call = "none"
    /\ \E b \in buffers, pre \in {0, 3} : input = StructStream(Junk(pre) \o b, pre)
    /\ stream = input
    /\ tree = NoTree
    /\ realFile = NoFile
    /\ rfs = NoRfs
    /\ got = NoRecord
    /\ child = NoStream
    /\ last = NoRead
    /\ cdi = NoDisc

\* A call returns: the decoder has advanced the caller's stream.
Return(r) ==
    /\ stream' = r.s
    /\ tree' = [ok |-> r.ok, node |-> r.node]

\* ResourceTree.parseFromStream(stream)
ParseFromStream ==
    /\ pc = "ready"
    /\ pc' = "done"
    /\ call' = "parseFromStream"
    /\ Return(parseFromStream(stream))
    /\ UNCHANGED <<input, realFile, rfs, got, child, last, cdi>>

\* ResourceTreeSet(stream), as ResourceTreeNode calls it
NewResourceTreeSet ==
    /\ pc = "ready"
    /\ pc' = "done"
    /\ call' = "ResourceTreeSet"
    /\ Return(ResourceTreeSet(stream))
    /\ UNCHANGED <<input, realFile, rfs, got, child, last, cdi>>

\* ResourceTreeArray(stream)
NewResourceTreeArray ==
    /\ pc = "ready"
    /\ pc' = "done"
    /\ call' = "ResourceTreeArray"
    /\ Return(ResourceTreeArray(stream))
    /\ UNCHANGED <<input, realFile, rfs, got, child, last, cdi>>

\* ResourceTreeNode(stream)
NewResourceTreeNode ==
    /\ pc = "ready"
    /\ pc' = "done"
    /\ call' = "ResourceTreeNode"
    /\ Return(ResourceTreeNode(stream))
    /\ UNCHANGED <<input, realFile, rfs, got, child, last, cdi>>

TreeNext ==
    \/ ParseFromStream
    \/ NewResourceTreeSet
    \/ NewResourceTreeArray
    \/ NewResourceTreeNode

TreeInit == TreeInitFrom(SetBuffers \cup ArrayBuffers \cup NodeBuffers \cup GenericBuffers)

TreeSpec == TreeInit /\ [][TreeNext]_vars

(***************************************************************************)
(* The file system: resource maps laid out as ResourceFileSystem reads     *)
(* them, a Node whose named children are Arrays, over a file of sectors.   *)
(***************************************************************************)
MaxFolders == 3

MaxBlock == 2

MaxSectors == 4

MaxIndex == 1

MaxCalls == 2

MediaKinds == {"video", "audio", "data"}

Half(x) == << (x \div 256) % 256, x % 256 >>

\* A 12-byte folder descriptor: channel, blockOffset and the three indices.
Descriptor(channel, blockOffset, indices) ==
    Half(channel) \o Word(blockOffset)
    \o Half(indices[1]) \o Half(indices[2]) \o Half(indices[3])

\* An Array whose data follows its header.
ArrayOf(elementSize, blobs) ==
    Words(<<1, 20 + Len(Flatten(blobs)), Len(blobs), elementSize, 20>>) \o Flatten(blobs)

\* The resource map: a Node with the given names for the given children.
RootBuffer(names, children) ==
    NodeNamed(0, Len(children), TRUE,
              SetOf([i \in 1..Len(names) |-> names[i] \o <<0>>]), SetOf(children))

\* The sectors of a file, each with its own address and payload.
SectorsOf(kinds) ==
    [k \in 1..Len(kinds) |-> [frame |-> k - 1, kind |-> kinds[k], data |-> <<10 + k, 20 + k>>]]

CdiFile(kinds) == [sectors |-> SectorsOf(kinds)]

MixedKinds == [k \in 1..MaxSectors |->
                  IF k % 4 = 1 THEN "data" ELSE IF k % 4 = 2 THEN "video"
                  ELSE IF k % 4 = 3 THEN "audio" ELSE "empty"]

\* The shared size tables of the kinds v, a and d.
SizesV == <<11, 12, 13>>

SizesA == <<21, 22>>

SizesD == <<31, 32, 33>>

\* The start indices (v, a, d) a folder may carry: each kind meets 0, 1
\* and 0xFFFF.
IndexTriples == {<<0, 1, NoIndex>>, <<1, NoIndex, 0>>, <<NoIndex, 0, 1>>}

DescriptorLists(choices) == UNION {[1..n -> choices] : n \in 1..MaxFolders}

DescriptorArray(descs) ==
    ArrayOf(12, [i \in 1..Len(descs) |-> Descriptor(1, descs[i][1], descs[i][2])])

\* Unlabelled folders with all three size tables, at blockOffsets 0 and 1.
IndexedMaps ==
    {RootBuffer(<<KeyR, KeyV, KeyA, KeyD>>,
                <<DescriptorArray(descs), ArrayOf(Len(SizesV), <<SizesV>>),
                  ArrayOf(Len(SizesA), <<SizesA>>), ArrayOf(Len(SizesD), <<SizesD>>)>>) :
        descs \in DescriptorLists((0..1) \X IndexTriples)}

\* Folders labelled "a" or "b", as many labels as descriptors or not.
LabelledMaps ==
    {RootBuffer(<<KeyL, KeyR, KeyV>>,
                <<ArrayOf(2, [i \in 1..Len(labels) |-> <<96 + labels[i], 0>>]),
                  DescriptorArray(descs), ArrayOf(Len(SizesV), <<SizesV>>)>>) :
        labels \in SeqsUpTo(1..2, MaxFolders),
        descs \in DescriptorLists((0..1) \X {<<0, NoIndex, 1>>})}

\* Unlabelled folders at any blockOffsets, in any order.
PlainMaps ==
    {RootBuffer(<<KeyR, KeyV>>,
                <<DescriptorArray(descs), ArrayOf(Len(SizesV), <<SizesV>>)>>) :
        descs \in DescriptorLists((0..MaxBlock) \X {<<0, NoIndex, 1>>})}

\* Maps the constructor cannot use or uses without size tables: 6-byte and
\* cut descriptors, no descriptor, no "r", an empty size table, a root that
\* is no named Node.
OddMaps ==
    {RootBuffer(<<KeyR>>, <<ArrayOf(w, <<Half(1) \o Word(0) \o Junk(w - 6),
                                        Half(1) \o Word(1) \o Junk(w - 6)>>)>>) :
        w \in {6, 8}}
    \cup
    {RootBuffer(<<KeyR, KeyV>>,
                <<ArrayOf(w, <<Half(1) \o Word(1) \o Junk(w - 6)>>),
                  ArrayOf(Len(SizesV), <<SizesV>>)>>) : w \in {6, 8}}
    \cup
    {RootBuffer(<<KeyR>>, <<ArrayOf(4, <<Word(1)>>)>>),
     RootBuffer(<<KeyR>>, <<ArrayOf(12, <<>>)>>),
     RootBuffer(<<KeyV>>, <<ArrayOf(Len(SizesV), <<SizesV>>)>>),
     RootBuffer(<<KeyR, KeyV>>,
                <<DescriptorArray(<< <<0, <<0, 0, 0>> >> >>), ArrayOf(3, <<>>)>>),
     RootBuffer(<<KeyR, KeyV>>,
                <<DescriptorArray(<< <<0, <<0, 0, 0>> >> >>), Words(<<7, 8>>)>>),
     NodeUnnamed(0, 1, SetOf(<<DescriptorArray(<< <<0, <<0, 0, 0>> >> >>)>>)),
     DescriptorArray(<< <<0, <<0, 0, 0>> >> >>),
     Words(<<7, 8>>),
     Words(<<0, 40>>)}

RfsInitFrom(maps, files) ==
    /\ pc = "ready"
    /\ call = "none"
    /\ \E b \in maps : input = StructStream(b, 0)
    /\ stream = input
    /\ tree = NoTree
    /\ \E f \in files : realFile = f
    /\ rfs = NoRfs
    /\ got = NoRecord
    /\ child = NoStream
    /\ last = NoRead
    /\ cdi = NoDisc

\* The object a constructor call leaves, or the exception it raised.
Built(r) ==
    IF r.ok THEN [ok |-> TRUE, subFiles |-> r.subFiles, sortedFiles |-> r.sortedFiles]
    ELSE [ok |-> FALSE, err |-> r.err]

\* ResourceFileSystem(stream, realFile)
NewResourceFileSystem ==
    /\ pc = "ready"
    /\ pc' = "done"
    /\ call' = "ResourceFileSystem"
    /\ stream' = ResourceFileSystem(stream, realFile).s
    /\ rfs' = Built(ResourceFileSystem(stream, realFile))
    /\ UNCHANGED <<input, tree, realFile, got, child, last, cdi>>

RfsInit ==
    \/ RfsInitFrom(IndexedMaps \cup LabelledMaps \cup OddMaps, {CdiFile(MixedKinds)})
    \/ RfsInitFrom(PlainMaps, {CdiFile(MixedKinds), CdiFile(<<"data">>)})

RfsSpec == RfsInit /\ [][NewResourceFileSystem]_vars

\* The size tables of a map whose folders hold records: sizes count sectors.
RecordSizes == {<<1, 1, 1>>, <<2, 1, 1>>, <<0, 2, 1>>}

\* Two folders: the first holds all sectors but the last, a video sector.
RecordMaps ==
    {RootBuffer(<<KeyR, KeyV, KeyA, KeyD>>,
                <<DescriptorArray(<< <<0, <<0, 0, 0>> >>,
                                     <<MaxSectors - 1, <<2, NoIndex, 1>> >> >>),
                  ArrayOf(Len(sizes), <<sizes>>),
                  ArrayOf(2, <<<<1, 1>>>>), ArrayOf(2, <<<<2, 1>>>>)>>) :
        sizes \in RecordSizes}

\* folder.getRecord(index, kind), folder being self.subFiles[name].  A
\* client reads its records from one folder.
GetRecord ==
    /\ pc = "done"
    /\ rfs.ok
    /\ got.n < MaxCalls
    /\ \E i \in 1..Len(rfs.subFiles), index \in 0..MaxIndex, kind \in MediaKinds :
          /\ got.n > 0 => got.folder = <<rfs.subFiles[i][1]>>
          /\ rfs' = [rfs EXCEPT !.subFiles[i][2] = getRecord(@, index, kind).f]
          /\ got' = [n      |-> got.n + 1,
                     folder |-> <<rfs.subFiles[i][1]>>,
                     index  |-> index,
                     kind   |-> kind,
                     ok     |-> getRecord(rfs.subFiles[i][2], index, kind).ok,
                     val    |-> getRecord(rfs.subFiles[i][2], index, kind).val]
    /\ call' = "getRecord"
    /\ UNCHANGED <<pc, input, stream, tree, realFile, child, last, cdi>>

RecordNext ==
    \/ NewResourceFileSystem
    \/ GetRecord

RecordInit ==
    RfsInitFrom(RecordMaps,
                {CdiFile(kinds \o <<"video">>) : kinds \in [1..(MaxSectors - 1) -> MediaKinds]})

RecordSpec == RecordInit /\ [][RecordNext]_vars

(***************************************************************************)
(* Properties of the tree decoder, stated over the bytes handed to it.     *)
(***************************************************************************)

\* The 4-byte big-endian field at byte off of the node that starts at s.
FieldAt(s, off) == BigEndian(SubSeq(s.data, s.cursor + off + 1, s.cursor + off + 4))

\* el holds exactly the bytes [startOff, startOff + length) counted from the
\* start of the node at s, all of them inside the buffer.  An empty range
\* lies anywhere.
IsByteRange(el, s, startOff, length) ==
    IF length = 0 THEN Remaining(el) = <<>>
    ELSE /\ length > 0
         /\ startOff >= 0
         /\ s.cursor + startOff + length <= Len(s.data)
         /\ Remaining(el) =
                SubSeq(s.data, s.cursor + startOff + 1, s.cursor + startOff + length)

Outcome(r) == [ok |-> r.ok, node |-> r.node]

DecodedSet == pc = "done" /\ tree.ok /\ tree.node.kind = "ResourceTreeSet"

SetCount == FieldAt(input, 8)

SetBase == FieldAt(input, 12)

SetList == FieldAt(input, 16)

\* offsets[k - 1]: the k-th 4-byte value stored at node start + baseOffset.
SetOffset(k) == FieldAt(input, SetBase + 4 * (k - 1))

\* C5: in a decoded Set with count >= 2, every element i < count-1 is the
\* byte range that starts at node start + listOffset + offsets[i] and has
\* length offsets[i+1] - offsets[i].
SetElementIsOffsetRange ==
    DecodedSet /\ SetCount >= 2 =>
        /\ Len(tree.node.elements) = SetCount
        /\ \A i \in 1..(SetCount - 1) :
              IsByteRange(tree.node.elements[i], input,
                          SetList + SetOffset(i), SetOffset(i + 1) - SetOffset(i))

\* C6: the last element of a decoded Set starts at listOffset +
\* offsets[count-1]; it has length baseOffset - listOffset - offsets[count-1]
\* when listOffset < baseOffset, and runs to the end of the buffer otherwise.
SetLastElementRange ==
    DecodedSet /\ SetCount >= 1 =>
        /\ Len(tree.node.elements) = SetCount
        /\ IF SetList < SetBase
           THEN IsByteRange(tree.node.elements[SetCount], input,
                            SetList + SetOffset(SetCount),
                            SetBase - SetList - SetOffset(SetCount))
           ELSE Remaining(tree.node.elements[SetCount]) =
                    PySlice(input.data,
                            input.cursor + SetList + SetOffset(SetCount),
                            Len(input.data))

DecodedNode == pc = "done" /\ tree.ok /\ tree.node.kind = "ResourceTreeNode"

\* C7: every successfully decoded Node with a name list has as many
\* children as names; a decode with differing counts fails.
NamedNodeCountsMatch ==
    DecodedNode /\ tree.node.hasNames =>
        Len(tree.node.names) = Len(tree.node.childList)

\* C8, as stated: a Node with nameListOffset = 0 has no name list and its
\* keys are 0..childCount-1, childCount being the count field of the Node's
\* own header.
UnnamedKeysFollowHeaderCount ==
    DecodedNode /\ FieldAt(input, 12) = 0 =>
        /\ ~tree.node.hasNames
        /\ DictKeys(tree.node.children) = [i \in 1..FieldAt(input, 8) |-> i - 1]

\* C8, amended: a Node with nameListOffset = 0 has no name list and its keys
\* are 0..n-1 in increasing order, n being the count field of the child-list
\* Set at childListOffset, which is the number of children decoded.
UnnamedKeysFollowChildList ==
    DecodedNode /\ FieldAt(input, 12) = 0 =>
        /\ ~tree.node.hasNames
        /\ Len(tree.node.childList) = FieldAt(input, FieldAt(input, 16) + 8)
        /\ DictKeys(tree.node.children) =
               [i \in 1..FieldAt(input, FieldAt(input, 16) + 8) |-> i - 1]

\* An unnamed Node decoded with two children while its header announces
\* another number of them.
UnnamedNodeCountDiffers ==
    /\ DecodedNode
    /\ FieldAt(input, 12) = 0
    /\ Len(tree.node.children) = 2
    /\ FieldAt(input, 8) # 2

\* C9: parseFromStream reads the tag without consuming it and builds a Node
\* for tag 0, an Array for tag 1, a Set for tag 2, each from the stream
\* still positioned at the tag; for any other tag whose 8-byte header is
\* present it returns normally a node holding the tag and size only, with no
\* children.
DispatchByTag ==
    pc = "done" /\ call = "parseFromStream" /\ len(input) >= 4 =>
        /\ FieldAt(input, 0) = 0 =>
              /\ tree = Outcome(ResourceTreeNode(input))
              /\ stream.cursor = ResourceTreeNode(input).s.cursor
        /\ FieldAt(input, 0) = 1 =>
              /\ tree = Outcome(ResourceTreeArray(input))
              /\ stream.cursor = ResourceTreeArray(input).s.cursor
        /\ FieldAt(input, 0) = 2 =>
              /\ tree = Outcome(ResourceTreeSet(input))
              /\ stream.cursor = ResourceTreeSet(input).s.cursor
        /\ FieldAt(input, 0) \notin {0, 1, 2} /\ len(input) >= 8 =>
              /\ tree.ok
              /\ tree.node = [kind |-> "ResourceTree",
                              tag  |-> FieldAt(input, 0),
                              size |-> FieldAt(input, 4)]
              /\ stream.cursor = input.cursor + 8

\* parseFromStream has returned a generic node for a tag it does not know.
UnknownTagParsed ==
    /\ pc = "done"
    /\ call = "parseFromStream"
    /\ tree.ok
    /\ tree.node.kind = "ResourceTree"
    /\ tree.node.tag = 7

DecodedArray == pc = "done" /\ tree.ok /\ tree.node.kind = "ResourceTreeArray"

\* The first `size` bytes starting at the node's tag field.
Frame == PySlice(input.data, input.cursor, input.cursor + FieldAt(input, 4))

\* C10: a decoded Array has exactly elementCount elements, each of exactly
\* elementStride bytes, element i being the bytes [dataOffset + i*stride,
\* dataOffset + (i+1)*stride) of the node's frame.
ArrayElementsUniform ==
    DecodedArray =>
        /\ Len(tree.node.elements) = FieldAt(input, 8)
        /\ \A i \in 1..FieldAt(input, 8) :
              /\ Len(Remaining(tree.node.elements[i])) = FieldAt(input, 12)
              /\ IsByteRange(tree.node.elements[i], StructStream(Frame, 0),
                             FieldAt(input, 16) + (i - 1) * FieldAt(input, 12),
                             FieldAt(input, 12))

(***************************************************************************)
(* Properties of the file system.  A folder is an object held by subFiles; *)
(* sortedFiles lists a folder once for every descriptor that carried its   *)
(* name, so the folders in ascending blockOffset order are the entries of  *)
(* sortedFiles that are the last for their folder.                         *)
(***************************************************************************)
Constructed == pc = "done" /\ rfs.ok

FolderAt(i) == DictGet(rfs.subFiles, rfs.sortedFiles[i])

Positions ==
    {i \in 1..Len(rfs.sortedFiles) :
        \A j \in (i + 1)..Len(rfs.sortedFiles) : rfs.sortedFiles[j] # rfs.sortedFiles[i]}

LastPosition == Len(rfs.sortedFiles)

NextPosition(i) == CHOOSE j \in Positions : j > i /\ \A k \in Positions : k > i => j <= k

\* The sectors of the owning file at the indices a <= k < b; a sector's
\* frame is its index in the file.
SectorRange(a, b) == SelectSeq(realFile.sectors, LAMBDA s : a <= s.frame /\ s.frame < b)

Frames(f) == {f.sectors[k].frame : k \in 1..Len(f.sectors)}

\* C1: after construction, with the folders in ascending blockOffset order,
\* every folder but the last owns exactly the owning file's sectors
\* [blockOffset, next folder's blockOffset), the last folder owns the sectors
\* from its blockOffset to the file's sector count, and no sector belongs to
\* two folders.
FolderRangesContiguous ==
    Constructed =>
        /\ \A i \in Positions \ {LastPosition} :
              /\ FolderAt(i).blockOffset <= FolderAt(NextPosition(i)).blockOffset
              /\ FolderAt(i).sectors =
                     SectorRange(FolderAt(i).blockOffset,
                                 FolderAt(NextPosition(i)).blockOffset)
        /\ FolderAt(LastPosition).sectors =
               SectorRange(FolderAt(LastPosition).blockOffset, Len(realFile.sectors))
        /\ \A i, j \in Positions :
              i # j => Frames(FolderAt(i)) \cap Frames(FolderAt(j)) = {}

\* Three folders, listed in the map in another order than by blockOffset,
\* each owning at least one sector.
ThreeFoldersSorted ==
    /\ Constructed
    /\ Len(rfs.subFiles) = 3
    /\ Len(rfs.sortedFiles) = 3
    /\ DictKeys(rfs.subFiles) # rfs.sortedFiles
    /\ \A i \in 1..3 : rfs.subFiles[i][2].sectors # <<>>

\* The resource map as the constructor read it.
Root == simplify(parseFromStream(input).node).val

\* The shared size array of a kind present in the map.
SharedSizes(name) == takeAll(DictGet(Root.items, name).elements[1]).ret

IndexAt(i, name) == getSizeIndex(FolderAt(i), name)

\* The end index of the folder at position i: the start index of the next
\* folder whose index for the kind is not 0xFFFF, or the array's length.
EndSkipping(i, name) ==
    IF \E j \in Positions : j > i /\ IndexAt(j, name) # NoIndex
    THEN IndexAt(CHOOSE j \in Positions :
                    /\ j > i
                    /\ IndexAt(j, name) # NoIndex
                    /\ \A k \in Positions : k > i /\ IndexAt(k, name) # NoIndex => j <= k,
                 name)
    ELSE Len(SharedSizes(name))

\* The end index taken from the folder right after position i alone.
EndAdjacent(i, name) ==
    IF i = LastPosition \/ IndexAt(NextPosition(i), name) = NoIndex
    THEN Len(SharedSizes(name))
    ELSE IndexAt(NextPosition(i), name)

\* C2: when a size table is sliced, the end index of a folder is the start
\* index of the next folder in blockOffset order whose index for that kind
\* is not 0xFFFF (folders with 0xFFFF are skipped forward), or the length
\* of the array if no later folder has one.  Stated for the folders the
\* slicing reaches: those with a start index and no 0xFFFF folder before
\* them.
SizeSliceEndsAtNextRealIndex ==
    Constructed =>
        \A name \in {KeyV, KeyA, KeyD} :
            RootHas(Root, name) =>
                \A i \in Positions :
                    (\A j \in Positions : j <= i => IndexAt(j, name) # NoIndex) =>
                        getSizes(FolderAt(i), name) =
                            PySlice(SharedSizes(name), IndexAt(i, name),
                                    EndSkipping(i, name))

\* C3: for each kind present in the map, every folder whose start index is
\* not 0xFFFF is assigned its slice of the shared array starting at that
\* index, wherever it sits relative to folders whose index is 0xFFFF.  The
\* slice may end at either end index.
EveryIndexedFolderGetsSizes ==
    Constructed =>
        \A name \in {KeyV, KeyA, KeyD} :
            RootHas(Root, name) =>
                \A i \in Positions :
                    IndexAt(i, name) # NoIndex =>
                        getSizes(FolderAt(i), name) \in
                            {PySlice(SharedSizes(name), IndexAt(i, name),
                                     EndSkipping(i, name)),
                             PySlice(SharedSizes(name), IndexAt(i, name),
                                     EndAdjacent(i, name))}

RecordFolder == DictGet(rfs.subFiles, got.folder[1])

\* The folder's sectors of one kind, in order.
OfKind(f, kind) == SelectSeq(f.sectors, LAMBDA s : s.kind = kind)

\* sizes[0] + ... + sizes[k - 1]
SumBefore(sizes, k) == sum(SubSeq(sizes, 1, k))

\* The payloads of the positions [a, b) of a sequence of sectors, as far as
\* the sequence goes.
PayloadsBetween(sectors, a, b) ==
    Flatten([p \in 1..(Min(b, Len(sectors)) - Min(a, Len(sectors))) |->
                sectors[Min(a, Len(sectors)) + p].data])

Bytes(data) == {data[k] : k \in 1..Len(data)}

\* C4: getRecord(N, kind), for 0 <= N < number of sizes of the kind,
\* returns the concatenated payloads of the positions [sum(sizes[0..N-1]),
\* sum(sizes[0..N-1]) + sizes[N]) of the folder's sectors of that kind only;
\* records N and N+1 of one kind are adjacent and share no sector.
RecordIsFilteredRange ==
    pc = "done" /\ call = "getRecord" =>
        /\ got.index < Len(getSizes(RecordFolder, FirstLetter(got.kind))) =>
              /\ got.ok
              /\ got.val =
                     PayloadsBetween(OfKind(RecordFolder, got.kind),
                         SumBefore(getSizes(RecordFolder, FirstLetter(got.kind)), got.index),
                         SumBefore(getSizes(RecordFolder, FirstLetter(got.kind)), got.index)
                         + getSizes(RecordFolder, FirstLetter(got.kind))[got.index + 1])
        /\ \A kind \in MediaKinds, N \in 0..MaxIndex :
              /\ DictHas(RecordFolder.cachedRecordData, kind)
              /\ DictHas(DictGet(RecordFolder.cachedRecordData, kind), N)
              /\ DictHas(DictGet(RecordFolder.cachedRecordData, kind), N + 1)
              => /\ Bytes(DictGet(DictGet(RecordFolder.cachedRecordData, kind), N))
                    \cap Bytes(DictGet(DictGet(RecordFolder.cachedRecordData, kind), N + 1))
                    = {}
                 /\ DictGet(DictGet(RecordFolder.cachedRecordData, kind), N)
                    \o DictGet(DictGet(RecordFolder.cachedRecordData, kind), N + 1)
                    = PayloadsBetween(OfKind(RecordFolder, kind),
                          SumBefore(getSizes(RecordFolder, FirstLetter(kind)), N),
                          SumBefore(getSizes(RecordFolder, FirstLetter(kind)), N + 2))

\* Records 0 and 1 of one kind have been read from a folder whose first
\* sector is of another kind, and neither record is empty.
TwoAdjacentRecordsRead ==
    /\ pc = "done"
    /\ call = "getRecord"
    /\ got.n = 2
    /\ got.ok
    /\ RecordFolder.sectors[1].kind # got.kind
    /\ DictHas(DictGet(RecordFolder.cachedRecordData, got.kind), 0)
    /\ DictHas(DictGet(RecordFolder.cachedRecordData, got.kind), 1)
    /\ DictGet(DictGet(RecordFolder.cachedRecordData, got.kind), 0) # <<>>
    /\ DictGet(DictGet(RecordFolder.cachedRecordData, got.kind), 1) # <<>>

\* The offset table of the Set at the start of the input implies a negative
\* element length.
ImpliesNegativeLength ==
    \/ \E i \in 1..(SetCount - 1) : SetOffset(i + 1) < SetOffset(i)
    \/ /\ SetCount >= 1
       /\ SetList < SetBase
       /\ SetBase - SetList < SetOffset(SetCount)

\* C11: a Set whose offsets imply a negative element length (offsets[i+1] <
\* offsets[i] for some i, or baseOffset - listOffset < offsets[count-1] when
\* listOffset < baseOffset) is reported as an error: no Set is decoded from
\* it and no element is produced for the entry.
SetNegativeLengthRejected == DecodedSet => ~ImpliesNegativeLength

(***************************************************************************)
(* PointerArray (za_images.py): a count, an unused integer, count offsets  *)
(* and the elements.  unpackPointerArray returns [ok, node, s] like the    *)
(* constructors of the resource tree.                                      *)
(***************************************************************************)
RECURSIVE TakeOffsets(_, _)

OffsetsAfter(t, rest) ==
    IF ~rest.ok THEN rest
    ELSE [ok |-> TRUE, val |-> <<t.val[1]>> \o rest.val, s |-> rest.s]

NextOffset(t, length) ==
    IF ~t.ok THEN [ok |-> FALSE, val |-> <<>>, s |-> t.s]
    ELSE OffsetsAfter(t, TakeOffsets(t.s, length - 1))

\* offsets = [stream.take("I") for _ in range(length)]
TakeOffsets(s, length) ==
    IF length <= 0 THEN [ok |-> TRUE, val |-> <<>>, s |-> s]
    ELSE NextOffset(take(s, <<FmtI>>, FALSE), length)

\* Elements cut at the offsets themselves, counted from the end of the
\* offset table, instead of one after the other.
RECURSIVE TakeElementsAtOffsets(_, _, _)
TakeElementsAtOffsets(s, offsets, i) ==
    IF i > Len(offsets) - 1 THEN [els |-> <<>>, s |-> s]
    ELSE [els |-> <<peekFork(skip(copy(s), offsets[i]),
                             offsets[i + 1] - offsets[i], FALSE).ret>>
                  \o TakeElementsAtOffsets(s, offsets, i + 1).els,
          s   |-> s]

RECURSIVE TakeElements(_, _, _)

ElementsAfter(f, rest) == [els |-> <<f.ret>> \o rest.els, s |-> rest.s]

TakeElement(f, offsets, i) == ElementsAfter(f, TakeElements(f.s, offsets, i + 1))

\* [stream.takeFork(offsets[i + 1] - offsets[i]) for i in range(len(offsets) - 1)]
\* from the i-th offset on; i counts from 1.
TakeElements(s, offsets, i) ==
    IF i > Len(offsets) - 1 THEN [els |-> <<>>, s |-> s]
    ELSE TakeElement(takeFork(s, offsets[i + 1] - offsets[i], FALSE), offsets, i)

\* A PointerArray that gets no final element when it has no offsets.
PointerElementsFinalIfAny(header, e, offsets) ==
    [ok   |-> TRUE,
     node |-> [kind          |-> "PointerArray",
               elements      |-> IF offsets = <<>> THEN e.els
                                 ELSE Append(e.els, fork(e.s, 0)),
               unusedPointer |-> header.val[2]],
     s    |-> e.s]

\* elements.append(stream.fork()); return PointerArray(elements, unusedPointer)
PointerElements(header, e, offsets) ==
    [ok   |-> TRUE,
     node |-> [kind          |-> "PointerArray",
               elements      |-> Append(e.els, fork(e.s, 0)),
               unusedPointer |-> header.val[2]],
     s    |-> e.s]

PointerOffsets(header, offs) ==
    IF ~offs.ok THEN Raise("struct.error", offs.s)
    ELSE PointerElements(header, TakeElements(offs.s, offs.val, 1), offs.val)

PointerHeader(h) ==
    IF ~h.ok THEN Raise("struct.error", h.s)
    ELSE PointerOffsets(h, TakeOffsets(h.s, h.val[1]))

unpackPointerArray(s) == PointerHeader(take(s, <<FmtI, FmtI>>, FALSE))

\* A PointerArray of the given offsets over dataLen bytes; the unused
\* integer is 9.
PointerBuffer(offs, dataLen) == Words(<<Len(offs), 9>>) \o Words(offs) \o DataBytes(dataLen)

\* Offsets in any order, counted from 0 or from 8, and arrays cut short
\* inside the header or the offset table.
PointerBuffers ==
    {PointerBuffer([i \in 1..Len(offs) |-> base + offs[i]], n) :
        base \in {0, 8}, offs \in SeqsUpTo(0..MaxOffset, MaxCount), n \in 0..MaxData}
    \cup
    {PySlice(PointerBuffer(<<0, 1>>, 0), 0, n) : n \in {0, 4, 7, 8, 11, 12, 15}}

\* unpackPointerArray(stream)
UnpackPointerArray ==
    /\ pc = "ready"
    /\ pc' = "done"
    /\ call' = "unpackPointerArray"
    /\ Return(unpackPointerArray(stream))
    /\ UNCHANGED <<input, realFile, rfs, got, child, last, cdi>>

PointerInit == TreeInitFrom(PointerBuffers)

PointerSpec == PointerInit /\ [][UnpackPointerArray]_vars

PointerArrayUnpacked == pc = "done" /\ call = "unpackPointerArray" /\ tree.ok

\* The count the header declares, and offsets[k - 1] of the table after it.
PointerCount == FieldAt(input, 0)

PointerOffset(k) == FieldAt(input, 8 + 4 * (k - 1))

\* The bytes that follow the offset table.
AfterTable == PySlice(input.data, input.cursor + 8 + 4 * PointerCount, Len(input.data))

\* C12, as stated: unpackPointerArray on a header that declares count = N
\* returns exactly N elements, for every N >= 0.
PointerArrayHasCountElements ==
    PointerArrayUnpacked => Len(tree.node.elements) = PointerCount

\* C12, amended: unpackPointerArray returns exactly N elements for every
\* N >= 1 (N-1 length-bounded elements plus the final one); for N = 0 it
\* returns one element, the final one, holding every byte after the header.
PointerArrayHasCountOrOneElement ==
    PointerArrayUnpacked =>
        /\ PointerCount >= 1 => Len(tree.node.elements) = PointerCount
        /\ PointerCount = 0 =>
              /\ Len(tree.node.elements) = 1
              /\ Remaining(tree.node.elements[1]) = AfterTable

\* A PointerArray that declares no element has been unpacked, with bytes
\* following its header.
EmptyPointerArrayUnpacked ==
    /\ PointerArrayUnpacked
    /\ PointerCount = 0
    /\ AfterTable # <<>>
    /\ Len(tree.node.elements) = 1

\* The offsets do not decrease and the bytes they span follow the table.
OffsetsFit ==
    /\ \A i \in 1..(PointerCount - 1) : PointerOffset(i) <= PointerOffset(i + 1)
    /\ PointerCount >= 1 =>
          PointerOffset(PointerCount) - PointerOffset(1) <= Len(AfterTable)

\* C13: for a PointerArray with nondecreasing offsets that fit in the
\* stream, element i (i <= count-2) has exactly offsets[i+1] - offsets[i]
\* bytes, the elements lie back to back from the position right after the
\* offset table, the final element is all the bytes that remain, and the
\* elements concatenated in order are exactly the bytes after the table.
PointerElementsBackToBack ==
    PointerArrayUnpacked /\ OffsetsFit =>
        /\ \A i \in 1..(PointerCount - 1) :
              Remaining(tree.node.elements[i]) =
                  SubSeq(AfterTable,
                         PointerOffset(i) - PointerOffset(1) + 1,
                         PointerOffset(i + 1) - PointerOffset(1))
        /\ PointerCount >= 1 =>
              Remaining(tree.node.elements[PointerCount]) =
                  SubSeq(AfterTable,
                         PointerOffset(PointerCount) - PointerOffset(1) + 1,
                         Len(AfterTable))
        /\ Flatten([i \in 1..Len(tree.node.elements) |->
                       Remaining(tree.node.elements[i])]) = AfterTable

\* Three elements, none of them empty, unpacked from offsets that do not
\* start at 0.
ThreeElementsUnpacked ==
    /\ PointerArrayUnpacked
    /\ OffsetsFit
    /\ PointerCount = 3
    /\ PointerOffset(1) > 0
    /\ \A i \in 1..3 : Remaining(tree.node.elements[i]) # <<>>

(***************************************************************************)
(* A client of one StructStream: any sequence of reads, peeks, skips and   *)
(* seeks.  last holds the latest call: its name, its arguments, the stream *)
(* as the call found it (pre), whether it returned (ok) and what (ret).    *)
(***************************************************************************)
MaxLen == 4

MaxRead == 3

\* The first n bytes of a text whose every third byte is a terminator.
Text(n) == [k \in 1..n |-> IF k % 3 = 0 THEN 0 ELSE 64 + k]

StreamBuffers == {Text(n) : n \in 0..MaxLen}

\* The formats "" and "H".
Formats == {<<>>, <<FmtH>>}

\* The cursor stays within MaxRead bytes of the end of the buffer.
Reach(s) == s.cursor <= Len(s.data) + MaxRead

StreamInit ==
    /\ pc = "ready"
    /\ call = "none"
    /\ \E b \in StreamBuffers : input = StructStream(b, 0)
    /\ stream = input
    /\ tree = NoTree
    /\ realFile = NoFile
    /\ rfs = NoRfs
    /\ got = NoRecord
    /\ child = NoStream
    /\ last = NoRead
    /\ cdi = NoDisc

\* stream.peekRaw(count, fillZeros)
PeekRaw ==
    /\ pc = "ready"
    /\ \E count \in 0..MaxRead, fillZeros \in BOOLEAN :
          /\ stream' = peekRaw(stream, count, fillZeros).s
          /\ last' = [op |-> "peekRaw", width |-> count, fillZeros |-> fillZeros,
                      pre |-> stream, ok |-> TRUE,
                      ret |-> peekRaw(stream, count, fillZeros).ret]
    /\ call' = "peekRaw"
    /\ UNCHANGED <<pc, input, tree, realFile, rfs, got, child, cdi>>

\* stream.takeRaw(count, fillZeros)
TakeRaw ==
    /\ pc = "ready"
    /\ \E count \in 0..MaxRead, fillZeros \in BOOLEAN :
          /\ Reach(takeRaw(stream, count, fillZeros).s)
          /\ stream' = takeRaw(stream, count, fillZeros).s
          /\ last' = [op |-> "takeRaw", width |-> count, fillZeros |-> fillZeros,
                      pre |-> stream, ok |-> TRUE,
                      ret |-> takeRaw(stream, count, fillZeros).ret]
    /\ call' = "takeRaw"
    /\ UNCHANGED <<pc, input, tree, realFile, rfs, got, child, cdi>>

\* stream.peek(formatStr, fillZeros)
Peek ==
    /\ pc = "ready"
    /\ \E fmt \in Formats, fillZeros \in BOOLEAN :
          /\ stream' = peek(stream, fmt, fillZeros).s
          /\ last' = [op |-> "peek", width |-> calcsize(fmt), fillZeros |-> fillZeros,
                      pre |-> stream, ok |-> peek(stream, fmt, fillZeros).ok,
                      ret |-> peek(stream, fmt, fillZeros).val]
    /\ call' = "peek"
    /\ UNCHANGED <<pc, input, tree, realFile, rfs, got, child, cdi>>

\* stream.take(formatStr, fillZeros)
Take ==
    /\ pc = "ready"
    /\ \E fmt \in Formats, fillZeros \in BOOLEAN :
          /\ Reach(take(stream, fmt, fillZeros).s)
          /\ stream' = take(stream, fmt, fillZeros).s
          /\ last' = [op |-> "take", width |-> calcsize(fmt), fillZeros |-> fillZeros,
                      pre |-> stream, ok |-> take(stream, fmt, fillZeros).ok,
                      ret |-> take(stream, fmt, fillZeros).val]
    /\ call' = "take"
    /\ UNCHANGED <<pc, input, tree, realFile, rfs, got, child, cdi>>

\* stream.peekFork(count, fillZeros)
PeekFork ==
    /\ pc = "ready"
    /\ \E count \in 0..MaxRead, fillZeros \in BOOLEAN :
          /\ stream' = peekFork(stream, count, fillZeros).s
          /\ last' = [op |-> "peekFork", width |-> count, fillZeros |-> fillZeros,
                      pre |-> stream, ok |-> TRUE,
                      ret |-> peekFork(stream, count, fillZeros).ret]
    /\ call' = "peekFork"
    /\ UNCHANGED <<pc, input, tree, realFile, rfs, got, child, cdi>>

\* stream.takeFork(count, fillZeros)
TakeFork ==
    /\ pc = "ready"
    /\ \E count \in 0..MaxRead, fillZeros \in BOOLEAN :
          /\ Reach(takeFork(stream, count, fillZeros).s)
          /\ stream' = takeFork(stream, count, fillZeros).s
          /\ last' = [op |-> "takeFork", width |-> count, fillZeros |-> fillZeros,
                      pre |-> stream, ok |-> TRUE,
                      ret |-> takeFork(stream, count, fillZeros).ret]
    /\ call' = "takeFork"
    /\ UNCHANGED <<pc, input, tree, realFile, rfs, got, child, cdi>>

\* stream.peekNullTermString(includeTerminator)
PeekNullTermString ==
    /\ pc = "ready"
    /\ \E includeTerminator \in BOOLEAN :
          /\ stream' = peekNullTermString(stream, includeTerminator).s
          /\ last' = [op |-> "peekNullTermString", includeTerminator |-> includeTerminator,
                      pre |-> stream, ok |-> TRUE,
                      ret |-> peekNullTermString(stream, includeTerminator).ret]
    /\ call' = "peekNullTermString"
    /\ UNCHANGED <<pc, input, tree, realFile, rfs, got, child, cdi>>

\* stream.takeNullTermString(includeTerminator)
TakeNullTermString ==
    /\ pc = "ready"
    /\ \E includeTerminator \in BOOLEAN :
          /\ stream' = takeNullTermString(stream, includeTerminator).s
          /\ last' = [op |-> "takeNullTermString", includeTerminator |-> includeTerminator,
                      pre |-> stream, ok |-> TRUE,
                      ret |-> takeNullTermString(stream, includeTerminator).ret]
    /\ call' = "takeNullTermString"
    /\ UNCHANGED <<pc, input, tree, realFile, rfs, got, child, cdi>>

\* stream.skip(count)
Skip ==
    /\ pc = "ready"
    /\ \E count \in (-MaxRead)..MaxRead :
          /\ Reach(skip(stream, count))
          /\ stream' = skip(stream, count)
          /\ last' = [op |-> "skip", width |-> count, pre |-> stream, ok |-> TRUE]
    /\ call' = "skip"
    /\ UNCHANGED <<pc, input, tree, realFile, rfs, got, child, cdi>>

\* stream.seek(offset)
Seek ==
    /\ pc = "ready"
    /\ \E offset \in (-1)..(MaxLen + MaxRead) :
          /\ Reach(seek(stream, offset))
          /\ stream' = seek(stream, offset)
          /\ last' = [op |-> "seek", width |-> offset, pre |-> stream, ok |-> TRUE]
    /\ call' = "seek"
    /\ UNCHANGED <<pc, input, tree, realFile, rfs, got, child, cdi>>

StreamNext ==
    \/ PeekRaw
    \/ TakeRaw
    \/ Peek
    \/ Take
    \/ PeekFork
    \/ TakeFork
    \/ PeekNullTermString
    \/ TakeNullTermString
    \/ Skip
    \/ Seek

StreamSpec == StreamInit /\ [][StreamNext]_vars

(***************************************************************************)
(* Properties of StructStream, stated over the latest call.                *)
(***************************************************************************)

\* The bytes between the position and the end of the buffer before the call.
Available == SubSeq(last.pre.data, last.pre.cursor + 1, Len(last.pre.data))

\* The bytes the latest read handed out.
Returned == IF last.op \in {"peekFork", "takeFork"} THEN last.ret.data ELSE last.ret

\* C14: a read without zero-padding (take, peek, takeRaw, peekRaw, takeFork,
\* peekFork) that asks for more bytes than remain between the position and
\* the end of the buffer fails; it never succeeds by returning fewer bytes
\* than requested, also after skip/seek moved the position past the end.
ShortReadFails ==
    /\ last.op \in {"take", "peek", "takeRaw", "peekRaw", "takeFork", "peekFork"}
    /\ ~last.fillZeros
    /\ last.width > Len(Available)
    => ~last.ok

\* C15: peekRaw/takeRaw(count, fillZeros=True) return exactly count bytes:
\* the bytes available from the position to the end of the buffer, followed
\* by a zero-valued (0x00) byte for every requested byte past the end.
ZeroFillPadsWithZeroBytes ==
    last.op \in {"peekRaw", "takeRaw"} /\ last.fillZeros =>
        /\ Len(last.ret) = last.width
        /\ \A k \in 1..last.width :
              last.ret[k] = IF k <= Len(Available) THEN Available[k] ELSE 0

\* C16: every take/takeRaw/takeFork that returns advances the position by
\* exactly the width it consumed (the struct size of the format for take, 0
\* for an empty format; count for takeRaw/takeFork), whatever calls came
\* before it, and every peek/peekRaw/peekFork leaves the position unchanged.
ReadAdvancesByWidth ==
    /\ last.op \in {"take", "takeRaw", "takeFork"} /\ last.ok =>
          stream.cursor = last.pre.cursor + last.width
    /\ last.op \in {"peek", "peekRaw", "peekFork"} =>
          stream.cursor = last.pre.cursor

\* A terminator lies at or after the position.
TerminatorAhead == \E k \in 1..Len(Available) : Available[k] = 0

\* The number of bytes before the first terminator ahead.
StringLength ==
    CHOOSE n \in 0..(Len(Available) - 1) :
        Available[n + 1] = 0 /\ \A k \in 1..n : Available[k] # 0

Cursors == IF child.made THEN {"stream", "child"} ELSE {"stream"}

Cursor(who) == IF who = "stream" THEN stream ELSE child.s

Other(who) == IF who = "stream" THEN child ELSE stream

\* The call changed the cursor it was made on.
Moved(who, s) ==
    /\ stream' = IF who = "stream" THEN s ELSE stream
    /\ child' = IF who = "child" THEN [child EXCEPT !.s = s] ELSE child

\* child = stream.fork(skip)
ForkStream ==
    /\ pc = "ready"
    /\ ~child.made
    /\ \E skipBytes \in 0..MaxRead :
          child' = [made |-> TRUE, how |-> "fork", skip |-> skipBytes,
                    s |-> fork(stream, skipBytes), at |-> stream]
    /\ last' = [op |-> "fork", who |-> "stream", other |-> child]
    /\ call' = "fork"
    /\ UNCHANGED <<pc, input, stream, tree, realFile, rfs, got, cdi>>

\* child = stream.copy()
CopyStream ==
    /\ pc = "ready"
    /\ ~child.made
    /\ child' = [made |-> TRUE, how |-> "copy", skip |-> 0,
                 s |-> copy(stream), at |-> stream]
    /\ last' = [op |-> "copy", who |-> "stream", other |-> child]
    /\ call' = "copy"
    /\ UNCHANGED <<pc, input, stream, tree, realFile, rfs, got, cdi>>

\* cursor.takeRaw(count) on either cursor
CursorTakeRaw ==
    /\ pc = "ready"
    /\ child.made
    /\ \E who \in Cursors, count \in {1, MaxRead} :
          /\ Reach(takeRaw(Cursor(who), count, FALSE).s)
          /\ Moved(who, takeRaw(Cursor(who), count, FALSE).s)
          /\ last' = [op |-> "takeRaw", who |-> who, other |-> Other(who)]
    /\ call' = "takeRaw"
    /\ UNCHANGED <<pc, input, tree, realFile, rfs, got, cdi>>

\* cursor.skip(count) on either cursor
CursorSkip ==
    /\ pc = "ready"
    /\ child.made
    /\ \E who \in Cursors, count \in {-1, 1} :
          /\ Reach(skip(Cursor(who), count))
          /\ Moved(who, skip(Cursor(who), count))
          /\ last' = [op |-> "skip", who |-> who, other |-> Other(who)]
    /\ call' = "skip"
    /\ UNCHANGED <<pc, input, tree, realFile, rfs, got, cdi>>

\* cursor.seek(offset) on either cursor
CursorSeek ==
    /\ pc = "ready"
    /\ \E who \in Cursors, offset \in 0..(MaxLen + 1) :
          /\ Moved(who, seek(Cursor(who), offset))
          /\ last' = [op |-> "seek", who |-> who, other |-> Other(who)]
    /\ call' = "seek"
    /\ UNCHANGED <<pc, input, tree, realFile, rfs, got, cdi>>

ForkNext ==
    \/ ForkStream
    \/ CopyStream
    \/ CursorTakeRaw
    \/ CursorSkip
    \/ CursorSeek

\* The client seeks to where it wants the second cursor, makes it, and
\* then reads, skips and seeks on both.
ForkInit ==
    /\ pc = "ready"
    /\ call = "none"
    /\ input = StructStream(Text(MaxLen), 0)
    /\ stream = input
    /\ tree = NoTree
    /\ realFile = NoFile
    /\ rfs = NoRfs
    /\ got = NoRecord
    /\ child = NoStream
    /\ last = NoRead
    /\ cdi = NoDisc

ForkSpec == ForkInit /\ [][ForkNext]_vars

\* The bytes of a buffer from byte `from` (counted from 0) to its end.
BytesFrom(data, from) == SubSeq(data, from + 1, Len(data))

\* C18: fork(skip) returns a cursor at position 0 whose contents are the
\* stream's bytes from (position + skip) to the end of the buffer, and
\* copy() returns a cursor over the same whole buffer at the stream's
\* position; neither call changes the stream's position, and no later
\* read, skip or seek on one cursor changes the position of, or the bytes
\* seen by, the other.
ForkedCursorsIndependent ==
    child.made =>
        /\ stream.data = child.at.data
        /\ child.how = "fork" =>
              /\ child.s.data = BytesFrom(child.at.data, child.at.cursor + child.skip)
              /\ last.op = "fork" => child.s.cursor = 0 /\ stream.cursor = child.at.cursor
        /\ child.how = "copy" =>
              /\ child.s.data = child.at.data
              /\ last.op = "copy" =>
                    child.s.cursor = child.at.cursor /\ stream.cursor = child.at.cursor
        /\ last.op \notin {"fork", "copy"} /\ last.who = "stream" =>
              /\ child.s.cursor = last.other.s.cursor
              /\ Remaining(child.s) = Remaining(last.other.s)
        /\ last.op \notin {"fork", "copy"} /\ last.who = "child" =>
              /\ stream.cursor = last.other.cursor
              /\ Remaining(stream) = Remaining(last.other)

\* A fork made in the middle of the buffer, skipping a byte, has been read
\* from and the stream it was made from has moved on since.
ForkReadAfterStreamMoved ==
    /\ child.made
    /\ child.how = "fork"
    /\ child.skip > 0
    /\ child.at.cursor > 0
    /\ child.s.data # <<>>
    /\ child.s.cursor > 0
    /\ stream.cursor # child.at.cursor
    /\ last.who = "stream"

(***************************************************************************)
(* The disc (cdi_filesystem.py).  cdi holds the arguments of the latest    *)
(* call on the disc layer and, once the call is made, what it produced.    *)
(***************************************************************************)
SecondsPerMinute == 60

FramesPerSecond == 75

\* An index that counts 100 seconds to the minute and 100 frames to the
\* second.
AbsoluteTimeDecimal(minute, second, frame) == (minute * 100 + second) * 100 + frame

\* CdiFileSystem.absoluteTimeToIndex
absoluteTimeToIndex(minute, second, frame) ==
    (minute * SecondsPerMinute + second) * FramesPerSecond + frame

MaxMinute == 1

\* The valid time-codes of the first minutes of a disc.
TimeCodes == (0..MaxMinute) \X (0..(SecondsPerMinute - 1)) \X (0..(FramesPerSecond - 1))

TimeInit ==
    /\ pc = "ready"
    /\ call = "none"
    /\ input = StructStream(<<>>, 0)
    /\ stream = input
    /\ tree = NoTree
    /\ realFile = NoFile
    /\ rfs = NoRfs
    /\ got = NoRecord
    /\ child = NoStream
    /\ last = NoRead
    /\ \E t \in TimeCodes :
          cdi = [op |-> "none", minute |-> t[1], second |-> t[2], frame |-> t[3]]

\* CdiFileSystem.absoluteTimeToIndex(minute, second, frame)
AbsoluteTimeToIndex ==
    /\ pc = "ready"
    /\ pc' = "done"
    /\ call' = "absoluteTimeToIndex"
    /\ cdi' = [op     |-> "absoluteTimeToIndex",
               minute |-> cdi.minute,
               second |-> cdi.second,
               frame  |-> cdi.frame,
               index  |-> absoluteTimeToIndex(cdi.minute, cdi.second, cdi.frame)]
    /\ UNCHANGED <<input, stream, tree, realFile, rfs, got, child, last>>

TimeSpec == TimeInit /\ [][AbsoluteTimeToIndex]_vars

Indexed == pc = "done" /\ cdi.op = "absoluteTimeToIndex"

\* The time-code that follows (m, s, f): the frame wraps at 75, the second
\* at 60.
NextTimeCode(m, s, f) ==
    IF f < 74 THEN <<m, s, f + 1>>
    ELSE IF s < 59 THEN <<m, s + 1, 0>>
    ELSE <<m + 1, 0, 0>>

\* (m, s, f) comes before t in lexicographic order.
Before(m, s, f, t) ==
    \/ m < t[1]
    \/ m = t[1] /\ s < t[2]
    \/ m = t[1] /\ s = t[2] /\ f < t[3]

\* The time-codes a given one is compared with: those of its second, the
\* first and last frame of every second of its minute and of the next.
Compared(m, s) ==
    ({m} \X {s} \X (0..74)) \cup ({m, m + 1} \X (0..59) \X {0, 74})

\* C19: absoluteTimeToIndex(m,s,f) = (m*60+s)*75+f maps the time-code that
\* follows a valid one (f+1 for f < 74, (s+1, 0) after frame 74 for s < 59,
\* (m+1, 0, 0) after 59:74) to the next index, and is strictly increasing,
\* hence injective, in lexicographic order: no gaps and no collisions.
TimeIndexConsecutive ==
    Indexed =>
        /\ cdi.index = (cdi.minute * 60 + cdi.second) * 75 + cdi.frame
        /\ absoluteTimeToIndex(NextTimeCode(cdi.minute, cdi.second, cdi.frame)[1],
                               NextTimeCode(cdi.minute, cdi.second, cdi.frame)[2],
                               NextTimeCode(cdi.minute, cdi.second, cdi.frame)[3])
               = cdi.index + 1
        /\ \A t \in Compared(cdi.minute, cdi.second) :
              /\ Before(cdi.minute, cdi.second, cdi.frame, t)
                    <=> cdi.index < absoluteTimeToIndex(t[1], t[2], t[3])
              /\ <<cdi.minute, cdi.second, cdi.frame>> = t
                    <=> cdi.index = absoluteTimeToIndex(t[1], t[2], t[3])

\* The last frame of the last second of a minute has been indexed: the
\* frame and the second wrap together.
MinuteBoundaryIndexed ==
    /\ Indexed
    /\ cdi.minute = 0
    /\ cdi.second = 59
    /\ cdi.frame = 74
    /\ cdi.index = 4499

(***************************************************************************)
(* CdiSector and the loop of _parseSectors that builds the sector store.   *)
(* The metadata is the parsed JSON: one record per sector with its         *)
(* time-code, its mode string and the offset and length of its bytes in    *)
(* the blob.  An attribute that is None is <<>>, a value x is <<x>>.       *)
(***************************************************************************)
Form1Size == 2048

Form2Size == 2324

\* submode & mask != 0, for a mask of one bit
Bit(x, mask) == (x \div mask) % 2 = 1

\* The two assertions that a sector has one kind.
OneKind(submode) ==
    /\ ~(Bit(submode, 4) /\ Bit(submode, 8))
    /\ ~(Bit(submode, 2) /\ (Bit(submode, 8) \/ Bit(submode, 4)))

SectorKind(submode) ==
    IF Bit(submode, 2) THEN "video"
    ELSE IF Bit(submode, 4) THEN "audio"
    ELSE IF Bit(submode, 8) THEN "data"
    ELSE "empty"

SectorForm(submode) == ((submode \div 32) % 2) + 1

Mode2Sector(metadata, rawData, submode) ==
    IF ~OneKind(submode) THEN Fail("AssertionError")
    ELSE Value([minute        |-> metadata.minute,
                second        |-> metadata.second,
                frame         |-> metadata.frame,
                mode          |-> 2,
                file          |-> <<rawData[1]>>,
                channel       |-> <<rawData[2]>>,
                coding        |-> <<rawData[4]>>,
                isEof         |-> <<Bit(submode, 128)>>,
                isRealtime    |-> <<Bit(submode, 64)>>,
                form          |-> <<SectorForm(submode)>>,
                isTrigger     |-> <<Bit(submode, 16)>>,
                kind          |-> <<SectorKind(submode)>>,
                isEndOfRecord |-> <<Bit(submode, 1)>>,
                data          |-> IF SectorForm(submode) = 1
                                  THEN PySlice(rawData, 8, 8 + Form1Size)
                                  ELSE PySlice(rawData, 8, 8 + Form2Size)])

\* The subheader read from its first copy alone.
Mode2HeaderFirstCopy(metadata, rawData) ==
    IF Len(rawData) < 4 THEN Fail("IndexError")
    ELSE Mode2Sector(metadata, rawData, rawData[3])

\* assert rawData[:4] == rawData[4:8], then rawData[0] .. rawData[3]
Mode2Header(metadata, rawData) ==
    IF PySlice(rawData, 0, 4) # PySlice(rawData, 4, 8) THEN Fail("AssertionError")
    ELSE IF Len(rawData) < 4 THEN Fail("IndexError")
    ELSE Mode2Sector(metadata, rawData, rawData[3])

Mode1Sector(metadata, rawData) ==
    Value([minute        |-> metadata.minute,
           second        |-> metadata.second,
           frame         |-> metadata.frame,
           mode          |-> 1,
           file          |-> <<>>,
           channel       |-> <<>>,
           coding        |-> <<>>,
           isEof         |-> <<>>,
           isRealtime    |-> <<>>,
           form          |-> <<>>,
           isTrigger     |-> <<>>,
           kind          |-> <<>>,
           isEndOfRecord |-> <<>>,
           data          |-> rawData])

\* CdiSector.__init__
CdiSector(metadata, rawData) ==
    IF metadata.mode = "MODE1" THEN Mode1Sector(metadata, rawData)
    ELSE IF metadata.mode # "MODE2" THEN Fail("AssertionError")
    ELSE Mode2Header(metadata, rawData)

RECURSIVE ParseEach(_, _, _)

AppendSector(blob, metadata, sectors, built) ==
    IF ~built.ok THEN [ok |-> FALSE, err |-> built.err, sectors |-> sectors]
    ELSE ParseEach(blob, Tail(metadata), Append(sectors, built.val))

\* for sector in metadata["sectors"]: the slice of the blob, the append
ParseEach(blob, metadata, sectors) ==
    IF metadata = <<>> THEN [ok |-> TRUE, err |-> "", sectors |-> sectors]
    ELSE AppendSector(blob, metadata, sectors,
                      CdiSector(metadata[1],
                                PySlice(blob, metadata[1].dataOffset,
                                        metadata[1].dataOffset + metadata[1].dataLength)))

\* CdiFileSystem._parseSectors, from the parsed metadata on
parseSectors(blob, metadata) == ParseEach(blob, metadata, <<>>)

\* The raw bytes of one sector as the image stores them: the subheader
\* twice, then 2328 bytes of payload and error correction.
Payload(n) == [k \in 1..n |-> k % 251]

RawSector(subheader, copy2) == subheader \o copy2 \o Payload(2328)

\* Submodes: either form, every combination of the three kind bits, with
\* the four flags all clear or all set.
Submodes ==
    {flags + 32 * form + 2 * kinds : flags \in {0, 209}, form \in {0, 1}, kinds \in 0..7}

\* Lengths a sector's metadata may declare: nothing, half a subheader, the
\* subheader alone, the subheader with a whole form 1 or form 2 payload,
\* and the full raw sector.
DataLengths == {0, 4, 8, 8 + Form1Size, 8 + Form2Size, 2336}

SectorEntry(mode, offset, length) ==
    [minute |-> 0, second |-> 2, frame |-> 0, mode |-> mode,
     dataOffset |-> offset, dataLength |-> length]

\* A mode 1 sector of four bytes, which always parses.
AudioEntry == SectorEntry("MODE1", 8, 4)

\* Images of one sector, alone or behind a sector that parses, whole or
\* cut short, the second copy of the subheader equal to the first or not.
DiscInit ==
    /\ pc = "ready"
    /\ call = "none"
    /\ input = StructStream(<<>>, 0)
    /\ stream = input
    /\ tree = NoTree
    /\ realFile = NoFile
    /\ rfs = NoRfs
    /\ got = NoRecord
    /\ child = NoStream
    /\ last = NoRead
    /\ \E mode \in {"MODE1", "MODE2", "MODE0"}, submode \in Submodes,
          coding2 \in {1, 2}, length \in DataLengths, blobLength \in {1000, 2336},
          before \in {<<>>, <<AudioEntry>>} :
          /\ mode = "MODE0" => submode = 0 /\ coding2 = 1 /\ length = 2336
          /\ cdi = [op       |-> "none",
                    blob     |-> PySlice(RawSector(<<1, 3, submode, 1>>,
                                                   <<1, 3, submode, coding2>>),
                                         0, blobLength),
                    metadata |-> before \o <<SectorEntry(mode, 0, length)>>]

\* self._parseSectors(fileBytes)
ParseSectors ==
    /\ pc = "ready"
    /\ pc' = "done"
    /\ call' = "_parseSectors"
    /\ cdi' = [op       |-> "_parseSectors",
               blob     |-> cdi.blob,
               metadata |-> cdi.metadata,
               ok       |-> parseSectors(cdi.blob, cdi.metadata).ok,
               err      |-> parseSectors(cdi.blob, cdi.metadata).err,
               sectors  |-> parseSectors(cdi.blob, cdi.metadata).sectors]
    /\ UNCHANGED <<input, stream, tree, realFile, rfs, got, child, last>>

DiscSpec == DiscInit /\ [][ParseSectors]_vars

Parsed == pc = "done" /\ cdi.op = "_parseSectors" /\ cdi.ok

\* C20: every successfully parsed sector with mode 1 has all mode-2-only
\* fields (file, channel, coding, isEof, isRealtime, form, isTrigger, kind,
\* isEndOfRecord) unset, and every successfully parsed mode 2 sector has
\* form 1 or 2 with a payload of exactly 2048 bytes when form is 1 and
\* exactly 2324 bytes when form is 2, whatever the length of the raw byte
\* range it was sliced from.
SectorPayloadMatchesForm ==
    Parsed =>
        \A i \in 1..Len(cdi.sectors) :
            /\ cdi.sectors[i].mode = 1 =>
                  \A field \in {"file", "channel", "coding", "isEof", "isRealtime",
                                "form", "isTrigger", "kind", "isEndOfRecord"} :
                      cdi.sectors[i][field] = <<>>
            /\ cdi.sectors[i].mode = 2 =>
                  /\ cdi.sectors[i].form \in {<<1>>, <<2>>}
                  /\ cdi.sectors[i].form = <<1>> => Len(cdi.sectors[i].data) = 2048
                  /\ cdi.sectors[i].form = <<2>> => Len(cdi.sectors[i].data) = 2324

\* The bytes _parseSectors slices from the blob for entry i of the metadata.
RawDataOf(i) ==
    PySlice(cdi.blob, cdi.metadata[i].dataOffset,
            cdi.metadata[i].dataOffset + cdi.metadata[i].dataLength)

CopiesDiffer(i) == PySlice(RawDataOf(i), 0, 4) # PySlice(RawDataOf(i), 4, 8)

ParseReturned == pc = "done" /\ cdi.op = "_parseSectors"

\* C21: constructing a mode 2 sector fails, and no sector is added to the
\* sector store, whenever raw bytes 0..3 and 4..7 (the two subheader
\* copies) are not byte-identical; every mode 2 sector in the store has
\* identical subheader copies.
MismatchedSubheaderRejected ==
    ParseReturned =>
        /\ \A i \in 1..Len(cdi.metadata) :
              (cdi.metadata[i].mode = "MODE2" /\ CopiesDiffer(i)) =>
                  /\ ~CdiSector(cdi.metadata[i], RawDataOf(i)).ok
                  /\ ~cdi.ok
                  /\ Len(cdi.sectors) < i
        /\ \A i \in 1..Len(cdi.sectors) :
              cdi.sectors[i].mode = 2 => ~CopiesDiffer(i)

\* A whole mode 2 sector whose second copy differs in the coding byte,
\* behind a sector that parsed: the store holds the first sector only.
MismatchedSectorAfterStored ==
    /\ ParseReturned
    /\ Len(cdi.metadata) = 2
    /\ cdi.metadata[2].mode = "MODE2"
    /\ cdi.metadata[2].dataLength = 2336
    /\ Len(cdi.blob) = 2336
    /\ CopiesDiffer(2)
    /\ cdi.err = "AssertionError"
    /\ Len(cdi.sectors) = 1

(***************************************************************************)
(* CdiFileSystem: the volume descriptor, the root directory and the files  *)
(* built from the sector store.  A Python str is the sequence of its       *)
(* character codes; an object's attributes are a record.                   *)
(***************************************************************************)
\* seq[i] of a Python list: a negative index counts from the end.
PyItem(seq, i) ==
    IF i >= Len(seq) \/ i < 0 - Len(seq) THEN Fail("IndexError")
    ELSE Value(seq[IF i < 0 THEN Len(seq) + i + 1 ELSE i + 1])

\* The characters str.strip() removes from both ends of ASCII text.
Whitespace == {9, 10, 11, 12, 13, 28, 29, 30, 31, 32}

\* The positions of the characters of text that are not whitespace.
Inked(text) == {k \in 1..Len(text) : text[k] \notin Whitespace}

\* str.strip(): text from its first to its last character that is not
\* whitespace.
Strip(text) ==
    IF Inked(text) = {} THEN <<>>
    ELSE SubSeq(text, CHOOSE k \in Inked(text) : \A j \in Inked(text) : k <= j,
                CHOOSE k \in Inked(text) : \A j \in Inked(text) : k >= j)

\* self._simplify and len(retTuple) == 1
SimpleReturn(val) == IF Len(val) = 1 THEN val[1] ELSE val

\* One attribute of a descriptor: the bytes skipped before it, how it is
\* read, its width or struct format, and the value an assertion expects.
Field(name, skipped, kind, n, expect) ==
    [name |-> name, skip |-> skipped, kind |-> kind, n |-> n, expect |-> expect]

Read(s, acc) == [ok |-> TRUE, err |-> "", s |-> s, acc |-> acc]

ReadFailed(err, s, acc) == [ok |-> FALSE, err |-> err, s |-> s, acc |-> acc]

\* assert s.takeRaw(1)[0] == expect
ReadFlag(field, r, acc) ==
    IF r.ret = <<>> THEN ReadFailed("IndexError", r.s, acc)
    ELSE IF r.ret[1] # field.expect THEN ReadFailed("AssertionError", r.s, acc)
    ELSE Read(r.s, acc)

\* assert s.takeRaw(n) == expect
ReadLiteral(field, r, acc) ==
    IF r.ret # field.expect THEN ReadFailed("AssertionError", r.s, acc)
    ELSE Read(r.s, acc)

\* s.takeRaw(n).decode('ascii').strip()
ReadText(field, r, acc) ==
    IF ~IsAscii(r.ret) THEN ReadFailed("UnicodeDecodeError", r.s, acc)
    ELSE Read(r.s, (field.name :> Strip(r.ret)) @@ acc)

\* s.takeRaw(n)
ReadRaw(field, r, acc) == Read(r.s, (field.name :> r.ret) @@ acc)

\* s.take(format)
ReadInt(field, t, acc) ==
    IF ~t.ok THEN ReadFailed("struct.error", t.s, acc)
    ELSE Read(t.s, (field.name :> SimpleReturn(t.val)) @@ acc)

ReadField(field, s, acc) ==
    IF field.kind = "flag" THEN ReadFlag(field, takeRaw(s, 1, FALSE), acc)
    ELSE IF field.kind = "literal" THEN ReadLiteral(field, takeRaw(s, field.n, FALSE), acc)
    ELSE IF field.kind = "text" THEN ReadText(field, takeRaw(s, field.n, FALSE), acc)
    ELSE IF field.kind = "raw" THEN ReadRaw(field, takeRaw(s, field.n, FALSE), acc)
    ELSE ReadInt(field, take(s, field.n, FALSE), acc)

RECURSIVE ReadFields(_, _)

ReadNext(fields, r) ==
    IF ~r.ok THEN r ELSE ReadFields(Tail(fields), r)

\* The statements of a descriptor's constructor, in order, from result r of
\* the statements before them.
ReadFields(fields, r) ==
    IF fields = <<>> THEN r
    ELSE ReadNext(fields, ReadField(fields[1], skip(r.s, fields[1].skip), r.acc))

FmtB == <<1, 1>>

Spaces(n) == [k \in 1..n |-> 32]

\* b'CD-I '
StandardId == <<67, 68, 45, 73, 32>>

\* b'CD-RTOS' + b' ' * (32 - 7)
SystemIdentifier == <<67, 68, 45, 82, 84, 79, 83>> \o Spaces(32 - 7)

VolumeFields ==
    << Field("recordType", 0, "flag", 1, 1),
       Field("standardId", 0, "literal", 5, StandardId),
       Field("version", 0, "flag", 1, 1),
       Field("charSetFlag", 0, "flag", 1, 0),
       Field("systemIdentifier", 0, "literal", 32, SystemIdentifier),
       Field("volumeName", 0, "text", 32, <<>>),
       Field("size", 12, "int", <<FmtI>>, <<>>),
       Field("charSet", 0, "raw", 32, <<>>),
       Field("volumesInAlbum", 2, "int", <<FmtH>>, <<>>),
       Field("volumeSeqNumber", 2, "int", <<FmtH>>, <<>>),
       Field("blockSize", 2, "int", <<FmtH>>, <<>>),
       Field("pathTableSize", 4, "int", <<FmtI>>, <<>>),
       Field("pathTableAddress", 8, "int", <<FmtI>>, <<>>),
       Field("album", 38, "text", 128, <<>>),
       Field("publisher", 0, "text", 128, <<>>),
       Field("dataPrepPerson", 0, "text", 128, <<>>),
       Field("applicationFileName", 0, "text", 128, <<>>),
       Field("copyrightFileName", 0, "text", 32, <<>>),
       Field("abstractFileName", 5, "text", 32, <<>>),
       Field("biblioFileName", 5, "text", 32, <<>>),
       Field("creationDateRaw", 5, "raw", 16, <<>>),
       Field("modificationDateRaw", 1, "raw", 16, <<>>),
       Field("expirationDateRaw", 1, "raw", 16, <<>>),
       Field("effectiveDateRaw", 1, "raw", 16, <<>>),
       Field("fileStructureVersion", 1, "flag", 1, 1),
       Field("appData", 1, "raw", 512, <<>>) >>

NoAttributes == [x \in {} |-> 0]

VolumeRead(r) == IF r.ok THEN Value(r.acc) ELSE Fail(r.err)

\* CdiVolumeDescriptor.__init__
CdiVolumeDescriptor(sector) ==
    IF sector.mode # 2 \/ sector.form # <<1>> \/ sector.isEndOfRecord # <<TRUE>>
    THEN Fail("AssertionError")
    ELSE VolumeRead(ReadFields(VolumeFields, Read(StructStream(sector.data, 0), NoAttributes)))

LeapYear(year) == year % 4 = 0 /\ (year % 100 # 0 \/ year % 400 = 0)

DaysIn(year, month) ==
    IF month = 2 THEN (IF LeapYear(year) THEN 29 ELSE 28)
    ELSE IF month \in {4, 6, 9, 11} THEN 30
    ELSE 31

\* The arguments datetime.datetime accepts; it raises ValueError otherwise.
ValidDate(raw) ==
    /\ raw[2] \in 1..12
    /\ raw[3] \in 1..DaysIn(raw[1] + 1900, raw[2])
    /\ raw[4] \in 0..23
    /\ raw[5] \in 0..59
    /\ raw[6] \in 0..59

\* "<PhloNickname:ROOT>"
RootNickname ==
    <<60, 80, 104, 108, 111, 78, 105, 99, 107, 110, 97, 109, 101, 58, 82, 79, 79, 84, 62>>

AttributeNames ==
    << <<1, "Owner Read">>, <<4, "Owner Execute">>, <<16, "Group Read">>,
       <<64, "Group Execute">>, <<256, "World Read">>, <<1024, "World Execute">>,
       <<16384, "CD-DA file">>, <<32768, "Directory">> >>

\* The names of the bits set in attributeFlags, in the order they are tested.
RECURSIVE Attributes(_, _)
Attributes(attributeFlags, names) ==
    IF names = <<>> THEN <<>>
    ELSE (IF Bit(attributeFlags, names[1][1]) THEN <<names[1][2]>> ELSE <<>>)
         \o Attributes(attributeFlags, Tail(names))

FileHeadFields ==
    << Field("recordLength", 0, "int", <<FmtB>>, <<>>),
       Field("exAttribs", 0, "int", <<FmtB>>, <<>>),
       Field("startBlock", 4, "int", <<FmtI>>, <<>>),
       Field("size", 4, "int", <<FmtI>>, <<>>),
       Field("creationDateRaw", 0, "int", << <<6, 1>> >>, <<>>) >>

FileNameFields ==
    << Field("flags", 1, "int", <<FmtB>>, <<>>),
       Field("interleaveRatio", 0, "int", <<FmtB, FmtB>>, <<>>),
       Field("sequenceNumber", 2, "int", <<FmtH>>, <<>>),
       Field("nameLength", 0, "int", <<FmtB>>, <<>>) >>

FileOwnerFields ==
    << Field("owner", 0, "int", <<FmtH, FmtH>>, <<>>),
       Field("attributeFlags", 0, "int", <<FmtH>>, <<>>),
       Field("fileNumber", 2, "int", <<FmtB>>, <<>>) >>

FileResult(ok, err, val, s) == [ok |-> ok, err |-> err, val |-> val, s |-> s]

\* The attributes of a CdiFile once every field is read, and the three
\* assertions that close the constructor.
FileBuilt(mark, s, a) ==
    IF a.interleaveRatio # <<0, 0>> \/ a.exAttribs # 0 \/ mark - len(s) # a.recordLength
    THEN FileResult(FALSE, "AssertionError", <<>>, s)
    ELSE FileResult(TRUE, "",
                    [cachedBytes     |-> <<>>,
                     exAttribs       |-> a.exAttribs,
                     startBlock      |-> a.startBlock,
                     size            |-> a.size,
                     creationDate    |-> <<a.creationDateRaw[1] + 1900>>
                                         \o Tail(a.creationDateRaw),
                     isHidden        |-> Bit(a.flags, 1),
                     interleaveRatio |-> a.interleaveRatio,
                     sequenceNumber  |-> a.sequenceNumber,
                     name            |-> a.name,
                     owner           |-> [group |-> a.owner[1], user |-> a.owner[2]],
                     fileNumber      |-> a.fileNumber,
                     attributes      |-> Attributes(a.attributeFlags, AttributeNames),
                     sectors         |-> <<>>,
                     blocks          |-> <<>>,
                     modules         |-> <<>>,
                     unusedBytes     |-> <<>>],
                    s)

\* ownerGroup, ownerUser = s.take("HH") ... s.skip(1)
FileOwner(mark, r) ==
    IF ~r.ok THEN FileResult(FALSE, r.err, <<>>, r.s)
    ELSE FileBuilt(mark, skip(r.s, 1), r.acc)

\* The name, the ROOT nickname for b'\x00', and the byte that aligns the
\* owner after a name of even length.
FileNamed(mark, nameLength, rawName, acc) ==
    IF rawName.ret # <<0>> /\ ~IsAscii(rawName.ret)
    THEN FileResult(FALSE, "UnicodeDecodeError", <<>>, rawName.s)
    ELSE FileOwner(mark,
                   ReadFields(FileOwnerFields,
                              Read(IF nameLength % 2 = 0 THEN skip(rawName.s, 1) ELSE rawName.s,
                                   ("name" :> (IF rawName.ret = <<0>> THEN RootNickname
                                               ELSE rawName.ret)) @@ acc)))

FileName(mark, r) ==
    IF ~r.ok THEN FileResult(FALSE, r.err, <<>>, r.s)
    ELSE FileNamed(mark, r.acc.nameLength, takeRaw(r.s, r.acc.nameLength, FALSE), r.acc)

\* self.creationDate = datetime.datetime(...)
FileDated(mark, r) ==
    IF ~r.ok THEN FileResult(FALSE, r.err, <<>>, r.s)
    ELSE IF ~ValidDate(r.acc.creationDateRaw) THEN FileResult(FALSE, "ValueError", <<>>, r.s)
    ELSE FileName(mark, ReadFields(FileNameFields, r))

\* CdiFile.__init__
CdiFileDescriptor(s) == FileDated(len(s), ReadFields(FileHeadFields, Read(s, NoAttributes)))

RECURSIVE ReadDescriptors(_, _, _)

DescriptorRead(size, files, f) ==
    IF ~f.ok THEN Fail(f.err)
    ELSE IF \E k \in 1..Len(f.val.attributes) : f.val.attributes[k] = "Directory"
    THEN Fail("AssertionError")
    ELSE ReadDescriptors(f.s, size, Append(files, f.val))

\* while s._cursor < self.thisDescriptor.size
ReadDescriptors(s, size, files) ==
    IF s.cursor < size THEN DescriptorRead(size, files, CdiFileDescriptor(s))
    ELSE Value(files)

DirectoryBuilt(this, parent, files) ==
    IF ~files.ok THEN files
    ELSE Value([thisDescriptor   |-> this,
                parentDescriptor |-> parent,
                fileDescriptors  |-> files.val])

DirectoryParent(this, parent) ==
    IF ~parent.ok THEN Fail(parent.err)
    ELSE DirectoryBuilt(this.val, parent.val, ReadDescriptors(parent.s, this.val.size, <<>>))

DirectoryThis(this) ==
    IF ~this.ok THEN Fail(this.err)
    ELSE DirectoryParent(this, CdiFileDescriptor(this.s))

\* CdiDirectory.__init__
CdiDirectory(sector) == DirectoryThis(CdiFileDescriptor(StructStream(sector.data, 0)))

\* math.ceil(size / blockSize) for blockSize > 0
Ceil(size, blockSize) == (size + blockSize - 1) \div blockSize

DataOf(sectors) == [i \in 1..Len(sectors) |-> sectors[i].data]

\* file.blocks[-1] = file.blocks[-1][:file.size % self.volume.blockSize]
TruncateLast(blocks, count) ==
    [blocks EXCEPT ![Len(blocks)] = PySlice(@, 0, count)]

FileBlocks(file, blockSize, owned) ==
    IF file.size % blockSize = 0
    THEN Value([file EXCEPT !.sectors = owned, !.blocks = DataOf(owned)])
    ELSE IF owned = <<>> THEN Fail("IndexError")
    ELSE Value([file EXCEPT !.sectors = owned,
                            !.blocks = TruncateLast(DataOf(owned), file.size % blockSize)])

\* The sectors and blocks one file is given by CdiFileSystem.__init__.
FileSectors(file, sectors, blockSize) ==
    IF blockSize = 0 THEN Fail("ZeroDivisionError")
    ELSE FileBlocks(file, blockSize,
                    PySlice(sectors, file.startBlock,
                            file.startBlock + Ceil(file.size, blockSize)))

RECURSIVE BuildFiles(_, _, _, _)

FileOwned(descriptors, sectors, blockSize, files, file) ==
    IF ~file.ok THEN file
    ELSE BuildFiles(Tail(descriptors), sectors, blockSize,
                    DictSet(files, file.val.name, file.val))

\* for file in self.rootDir.fileDescriptors
BuildFiles(descriptors, sectors, blockSize, files) ==
    IF descriptors = <<>> THEN Value(files)
    ELSE FileOwned(descriptors, sectors, blockSize, files,
                   FileSectors(descriptors[1], sectors, blockSize))

\* b'\x4A\xFC'
SyncBytes == <<74, 252>>

\* "cdi_"
ModuleFilePrefix == <<99, 100, 105, 95>>

\* f + ":" + name: f is a str and name a bytes, so the + raises TypeError.
QualifiedName(f, name) == Fail("TypeError")

Scan(files, modules, duplicateNames, dualBlock) ==
    [ok |-> TRUE, err |-> "", files |-> files, modules |-> modules,
     duplicateNames |-> duplicateNames, dualBlock |-> dualBlock]

ScanFailed(err, st) == [st EXCEPT !.ok = FALSE, !.err = err]

Module(currentModule, name, f) ==
    [blocks |-> currentModule, name |-> name, parentFile |-> f]

\* self.modules[fullName] = {"blocks": ..., "name": name, "parentFile": f}
StoreUnder(st, fullName, currentModule, name, f) ==
    IF ~fullName.ok THEN ScanFailed(fullName.err, st)
    ELSE [st EXCEPT !.modules = DictSet(@, fullName.val, Module(currentModule, name, f))]

\* self.modules[oldModule["parentFile"] + ":" + name] = oldModule, then the
\* new module under its own qualified name.
MoveOld(st, oldKey, oldModule, currentModule, name, f) ==
    IF ~oldKey.ok THEN ScanFailed(oldKey.err, st)
    ELSE StoreUnder([st EXCEPT !.modules = DictSet(@, oldKey.val, oldModule),
                               !.duplicateNames = Append(@, name)],
                    QualifiedName(f, name), currentModule, name, f)

StoreModule(st, currentModule, name, f) ==
    IF \E k \in 1..Len(st.duplicateNames) : st.duplicateNames[k] = name
    THEN StoreUnder(st, QualifiedName(f, name), currentModule, name, f)
    ELSE IF DictHas(st.modules, name)
    THEN MoveOld(st, QualifiedName(DictGet(st.modules, name).parentFile, name),
                 DictGet(st.modules, name), currentModule, name, f)
    ELSE StoreUnder(st, Value(name), currentModule, name, f)

\* The name: in the first block of the module longer than what is left of
\* the name pointer, from the pointer to the next 0 byte.
RECURSIVE FindName(_, _)
FindName(currentModule, moduleNamePointer) ==
    IF currentModule = <<>> THEN Fail("AssertionError")
    ELSE IF Len(currentModule[1]) > moduleNamePointer
    THEN (IF IndexOfZero(currentModule[1], moduleNamePointer) < 0 THEN Fail("ValueError")
          ELSE Value(PySlice(currentModule[1], moduleNamePointer,
                             IndexOfZero(currentModule[1], moduleNamePointer))))
    ELSE FindName(Tail(currentModule), moduleNamePointer - Len(currentModule[1]))

\* while len(currentBlock) < moduleSize and currentBlockIndex < len(blocks),
\* then the last piece of the module.
RECURSIVE Gather(_, _, _, _, _, _)
Gather(blocks, currentBlock, moduleSize, currentBlockIndex, currentOffset, currentModule) ==
    IF Len(currentBlock) < moduleSize /\ currentBlockIndex < Len(blocks)
    THEN (IF currentBlockIndex + 1 < Len(blocks)
          THEN Gather(blocks, blocks[currentBlockIndex + 2], moduleSize - Len(currentBlock),
                      currentBlockIndex + 1, 0, Append(currentModule, currentBlock))
          ELSE [ok |-> FALSE])
    ELSE [ok                |-> TRUE,
          currentModule     |-> Append(currentModule,
                                       PySlice(currentBlock, 0, currentOffset + moduleSize)),
          currentBlockIndex |-> currentBlockIndex,
          currentOffset     |-> currentOffset + moduleSize]

RECURSIVE ScanBlocks(_, _, _, _, _)

ModuleStored(f, blocks, g, st) ==
    IF ~st.ok THEN st
    ELSE ScanBlocks(f, blocks, g.currentBlockIndex, g.currentOffset, st)

ModuleNamed(f, blocks, g, st, name) ==
    IF ~name.ok THEN ScanFailed(name.err, st)
    ELSE ModuleStored(f, blocks, g, StoreModule(st, g.currentModule, name.val, f))

ModuleGathered(f, blocks, st, moduleNamePointer, g) ==
    IF ~g.ok THEN ScanFailed("Exception", st)
    ELSE ModuleNamed(f, blocks, g, st, FindName(g.currentModule, moduleNamePointer))

ModuleSized(f, blocks, currentBlockIndex, currentOffset, st, moduleSize, moduleNamePointer) ==
    IF ~moduleSize.ok \/ ~moduleNamePointer.ok THEN ScanFailed("struct.error", st)
    ELSE IF moduleNamePointer.val[1] >= moduleSize.val[1] THEN st
    ELSE ModuleGathered(f, blocks, st, moduleNamePointer.val[1],
                        Gather(blocks,
                               PySlice(blocks[currentBlockIndex + 1], currentOffset,
                                       Len(blocks[currentBlockIndex + 1])),
                               moduleSize.val[1], currentBlockIndex, currentOffset, <<>>))

\* dualBlock is assigned only while a next block exists; it keeps the value
\* of an earlier pass otherwise and is unbound before the first assignment.
ModuleHeader(f, blocks, currentBlockIndex, currentOffset, st) ==
    IF st.dualBlock = <<>> THEN ScanFailed("UnboundLocalError", st)
    ELSE ModuleSized(f, blocks, currentBlockIndex, currentOffset, st,
                     unpack(<<FmtI>>, PySlice(st.dualBlock[1], currentOffset + 4,
                                              currentOffset + 8)),
                     unpack(<<FmtI>>, PySlice(st.dualBlock[1], currentOffset + 12,
                                              currentOffset + 16)))

UnusedBytes(blocks, currentBlockIndex, currentOffset) ==
    <<PySlice(blocks[currentBlockIndex + 1], currentOffset,
              Len(blocks[currentBlockIndex + 1]))>>
    \o SubSeq(blocks, currentBlockIndex + 2, Len(blocks))

\* while currentBlockIndex < len(blocks)
ScanBlocks(f, blocks, currentBlockIndex, currentOffset, st) ==
    IF currentBlockIndex >= Len(blocks) THEN st
    ELSE IF PySlice(blocks[currentBlockIndex + 1], currentOffset, currentOffset + 2) # SyncBytes
    THEN [st EXCEPT !.files =
             DictSet(@, f, [DictGet(@, f) EXCEPT !.unusedBytes =
                               <<UnusedBytes(blocks, currentBlockIndex, currentOffset)>>])]
    ELSE ModuleHeader(f, blocks, currentBlockIndex, currentOffset,
                      IF currentBlockIndex + 1 < Len(blocks)
                      THEN [st EXCEPT !.dualBlock =
                               <<blocks[currentBlockIndex + 1] \o blocks[currentBlockIndex + 2]>>]
                      ELSE st)

ScanFile(f, blocks, st) ==
    IF blocks = <<>> THEN ScanFailed("IndexError", st)
    ELSE IF PySlice(blocks[1], 0, 2) # SyncBytes THEN ScanFailed("AssertionError", st)
    ELSE ScanBlocks(f, blocks, 0, 0, st)

RECURSIVE ScanFiles(_, _)

FileScanned(names, st) == IF ~st.ok THEN st ELSE ScanFiles(Tail(names), st)

\* for f in self.files
ScanFiles(names, st) ==
    IF names = <<>> THEN st
    ELSE IF PySlice(names[1], 0, 4) # ModuleFilePrefix THEN ScanFiles(Tail(names), st)
    ELSE FileScanned(names, ScanFile(names[1], DictGet(st.files, names[1]).blocks, st))

\* CdiFileSystem._identifyModules
identifyModules(files) == ScanFiles(DictKeys(files), Scan(files, <<>>, <<>>, <<>>))

\* The attributes of a constructed CdiFileSystem.
FileSystemBuilt(sectors, firstIndex, volume, rootDir, st) ==
    IF ~st.ok THEN Fail(st.err)
    ELSE Value([sectors    |-> sectors,
                firstIndex |-> firstIndex,
                volume     |-> volume,
                rootDir    |-> rootDir,
                files      |-> st.files,
                modules    |-> st.modules])

FileSystemFiles(sectors, firstIndex, volume, rootDir, files) ==
    IF ~files.ok THEN files
    ELSE FileSystemBuilt(sectors, firstIndex, volume, rootDir, identifyModules(files.val))

FileSystemRoot(sectors, firstIndex, volume, rootDir) ==
    IF ~rootDir.ok THEN rootDir
    ELSE FileSystemFiles(sectors, firstIndex, volume, rootDir.val,
                         BuildFiles(rootDir.val.fileDescriptors, sectors,
                                    volume.blockSize, <<>>))

\* rootDirSector = self.sectors[self.volume.pathTableAddress + 1]
FileSystemRootSector(sectors, firstIndex, volume, rootDirSector) ==
    IF ~rootDirSector.ok THEN rootDirSector
    ELSE FileSystemRoot(sectors, firstIndex, volume, CdiDirectory(rootDirSector.val))

FileSystemVolume(sectors, firstIndex, volume) ==
    IF ~volume.ok THEN volume
    ELSE FileSystemRootSector(sectors, firstIndex, volume.val,
                              PyItem(sectors, volume.val.pathTableAddress + 1))

\* assert len(diskLabelSectors) == 1
FileSystemLabel(sectors, firstIndex, diskLabelSectors) ==
    IF ~diskLabelSectors.ok THEN diskLabelSectors
    ELSE IF Len(diskLabelSectors.val) # 1 THEN Fail("AssertionError")
    ELSE FileSystemVolume(sectors, firstIndex, CdiVolumeDescriptor(diskLabelSectors.val[1]))

RECURSIVE DiskLabel(_, _, _)

\* while not currentSector.isEof: isEof is None on a mode 1 sector
LabelSector(sectors, i, diskLabelSectors, currentSector) ==
    IF ~currentSector.ok THEN currentSector
    ELSE IF currentSector.val.isEof = <<TRUE>> THEN Value(diskLabelSectors)
    ELSE DiskLabel(sectors, i + 1, Append(diskLabelSectors, currentSector.val))

DiskLabel(sectors, i, diskLabelSectors) ==
    LabelSector(sectors, i, diskLabelSectors, PyItem(sectors, i))

\* self._firstIndex, then the disk label from 2s 16f on
FileSystemFirst(sectors, firstSector) ==
    IF ~firstSector.ok THEN firstSector
    ELSE FileSystemLabel(sectors,
                         absoluteTimeToIndex(firstSector.val.minute, firstSector.val.second,
                                             firstSector.val.frame),
                         DiskLabel(sectors,
                                   absoluteTimeToIndex(0, 2, 16)
                                   - absoluteTimeToIndex(firstSector.val.minute,
                                                         firstSector.val.second,
                                                         firstSector.val.frame),
                                   <<>>))

FileSystemSectors(parsed) ==
    IF ~parsed.ok THEN Fail(parsed.err)
    ELSE FileSystemFirst(parsed.sectors, PyItem(parsed.sectors, 0))

\* CdiFileSystem.__init__, from the parsed metadata on
CdiFileSystem(blob, metadata) == FileSystemSectors(parseSectors(blob, metadata))

getSectorIndex(fs, minute, second, frame) ==
    absoluteTimeToIndex(minute, second, frame) - fs.firstIndex

getSector(fs, minute, second, frame) ==
    PyItem(fs.sectors, getSectorIndex(fs, minute, second, frame))

\* CdiFile.getBytes: the value returned and the file with its cache
CachedBytes(file) ==
    IF file.cachedBytes = <<>> THEN [file EXCEPT !.cachedBytes = <<Flatten(file.blocks)>>]
    ELSE file

FileGetBytes(file) == [ret |-> CachedBytes(file).cachedBytes[1], file |-> CachedBytes(file)]

(***************************************************************************)
(* Disc images.  An image is a run of whole raw sectors with consecutive   *)
(* time-codes: lead sectors before the disk label, the volume descriptor   *)
(* at 0:02:16, the label's terminator, the root directory, then the        *)
(* sectors of the files.                                                   *)
(***************************************************************************)
Zeros(n) == [k \in 1..n |-> 0]

U16(n) == <<(n \div 256) % 256, n % 256>>

U32(n) == <<(n \div 16777216) % 256, (n \div 65536) % 256>> \o U16(n)

PadTo(bytes, n) == bytes \o Zeros(n - Len(bytes))

\* The volume descriptor of image v, laid out as the Green Book does.
VolumeBytes(v) ==
    <<1>> \o StandardId \o <<1, v.charSetFlag>> \o v.systemIdentifier
    \o <<90, 69, 76, 68, 65>> \o Spaces(27) \o Zeros(12) \o U32(Len(v.sectors))
    \o Zeros(32) \o Zeros(2) \o U16(v.volumesInAlbum) \o Zeros(2) \o U16(v.volumeSeqNumber)
    \o Zeros(2) \o U16(v.blockSize) \o Zeros(4) \o U32(10) \o Zeros(8)
    \o U32(v.lead + 1) \o Zeros(38) \o Spaces(128 * 4 + 32) \o Zeros(5) \o Spaces(32)
    \o Zeros(5) \o Spaces(32) \o Zeros(5) \o Spaces(16) \o Zeros(1) \o Spaces(16)
    \o Zeros(1) \o Spaces(16) \o Zeros(1) \o Spaces(16) \o Zeros(1) \o <<1>>

\* One directory record: 1 January 1995, no interleave, owner 0:0.
DescriptorBytes(name, startBlock, size, attributeFlags) ==
    <<43 + Len(name) + (IF Len(name) % 2 = 0 THEN 1 ELSE 0), 0>>
    \o Zeros(4) \o U32(startBlock) \o Zeros(4) \o U32(size)
    \o <<95, 1, 1, 0, 0, 0>> \o <<0, 0>> \o <<0, 0>> \o Zeros(2) \o U16(1)
    \o <<Len(name)>> \o name \o (IF Len(name) % 2 = 0 THEN <<0>> ELSE <<>>)
    \o U16(0) \o U16(0) \o U16(attributeFlags) \o Zeros(2) \o <<1, 0>>

FileDescriptors(files) ==
    Flatten([i \in 1..Len(files) |->
                DescriptorBytes(files[i].name, files[i].startBlock, files[i].size, 1)])

\* The root directory: itself, its parent, then one record per file.
DirectoryBytes(v) ==
    DescriptorBytes(<<0>>, v.lead + 2, 2 * 44 + Len(FileDescriptors(v.files)), 32768)
    \o DescriptorBytes(<<1>>, v.lead + 2, 2048, 32768)
    \o FileDescriptors(v.files)

\* A whole raw mode 2 sector: the subheader twice, the payload, padding.
Mode2Raw(submode, payload) ==
    PadTo(<<1, 0, submode, 0>> \o <<1, 0, submode, 0>> \o payload, 2336)

\* One module of an OS-9 file: the sync bytes, its size at +4, the offset
\* of its name at +12, the header up to 16 bytes, the name and its 0.
ModuleBytes(name) ==
    SyncBytes \o Zeros(2) \o U32(17 + Len(name)) \o Zeros(4) \o U32(16) \o name \o <<0>>

ModulesBytes(names) == Flatten([i \in 1..Len(names) |-> ModuleBytes(names[i])])

\* A file sector: the modules it starts with, then its fill byte up to
\* the payload of its form.
FileSector(form, fill, modules) == [form |-> form, fill |-> fill, modules |-> modules]

FileSectorRaw(d) ==
    Mode2Raw(IF d.form = 1 THEN 8 ELSE 40,
             ModulesBytes(d.modules)
             \o [k \in 1..((IF d.form = 1 THEN Form1Size ELSE Form2Size)
                           - Len(ModulesBytes(d.modules))) |-> d.fill])

FileEntry(name, startBlock, size) == [name |-> name, startBlock |-> startBlock, size |-> size]

Image(lead, charSetFlag, systemIdentifier, volumesInAlbum, volumeSeqNumber, blockSize,
      files, sectors) ==
    [lead |-> lead, charSetFlag |-> charSetFlag, systemIdentifier |-> systemIdentifier,
     volumesInAlbum |-> volumesInAlbum, volumeSeqNumber |-> volumeSeqNumber,
     blockSize |-> blockSize, files |-> files, sectors |-> sectors]

MaxLead == 1

MaxFileSectors == 2

MaxModules == 2

\* b'CD-RTOX' + b' ' * 25
OtherSystem == <<67, 68, 45, 82, 84, 79, 88>> \o Spaces(32 - 7)

NameA == <<97>>

NameB == <<98>>

\* "cdi_a", "cdi_b"
ModuleFileA == ModuleFilePrefix \o NameA

ModuleFileB == ModuleFilePrefix \o NameB

PlainSectors(n, lastForm) ==
    [k \in 1..n |-> FileSector(IF k = n THEN lastForm ELSE 1, 10 + k, <<>>)]

\* Sizes around one and two blocks of 2048 bytes.
FileSizes == {0, 1, 2047, 2048, 2049, 4096, 4097}

\* One file over one or two sectors: any start from the first file sector
\* to one past the last, any size, blocks of 2048 or 1024 bytes, the last
\* sector of form 1 or form 2.
FileImages ==
    {Image(lead, 0, SystemIdentifier, 1, 1, blockSize,
           <<FileEntry(NameA, lead + 3 + first, size)>>, PlainSectors(n, lastForm)) :
        lead \in 0..MaxLead, blockSize \in {2048, 1024}, first \in 0..MaxFileSectors,
        size \in FileSizes, n \in 1..MaxFileSectors, lastForm \in {1, 2}}

\* Two files side by side, and two directory records of one name.
PairImages ==
    {Image(0, 0, SystemIdentifier, 1, 1, 2048,
           <<FileEntry(NameA, 3, size), FileEntry(other, 4, 2048)>>, PlainSectors(2, 1)) :
        size \in {0, 2048}, other \in {NameA, NameB}}

\* Volume descriptors: the character set flag, the system identifier, the
\* number of volumes in the album and the number of this volume.
VolumeImages ==
    {Image(0, charSetFlag, systemIdentifier, volumesInAlbum, volumeSeqNumber, 2048,
           <<FileEntry(NameA, 3, 2048)>>, PlainSectors(1, 1)) :
        charSetFlag \in {0, 1}, systemIdentifier \in {SystemIdentifier, OtherSystem},
        volumesInAlbum \in {1, 2}, volumeSeqNumber \in {1, 2}}

LeadRaw == Mode2Raw(0, <<>>)

ImageRaw(v) ==
    [k \in 1..v.lead |-> LeadRaw]
    \o << Mode2Raw(9, VolumeBytes(v)), Mode2Raw(137, <<>>), Mode2Raw(8, DirectoryBytes(v)) >>
    \o [k \in 1..Len(v.sectors) |-> FileSectorRaw(v.sectors[k])]

ImageBlob(v) == Flatten(ImageRaw(v))

\* The time-code of the sector index frames after 0:00:00.
TimeCode(index) ==
    [minute |-> index \div (SecondsPerMinute * FramesPerSecond),
     second |-> (index \div FramesPerSecond) % SecondsPerMinute,
     frame  |-> index % FramesPerSecond]

ImageEntry(v, k) ==
    [minute     |-> TimeCode(absoluteTimeToIndex(0, 2, 16) - v.lead + k - 1).minute,
     second     |-> TimeCode(absoluteTimeToIndex(0, 2, 16) - v.lead + k - 1).second,
     frame      |-> TimeCode(absoluteTimeToIndex(0, 2, 16) - v.lead + k - 1).frame,
     mode       |-> "MODE2",
     dataOffset |-> 2336 * (k - 1),
     dataLength |-> 2336]

ImageMetadata(v) == [k \in 1..Len(ImageRaw(v)) |-> ImageEntry(v, k)]

NameM == <<109>>

NameN == <<110>>

RECURSIVE NameLists(_)
NameLists(n) ==
    IF n = 0 THEN {<<>>}
    ELSE NameLists(n - 1)
         \cup {Append(ns, name) : ns \in {l \in NameLists(n - 1) : Len(l) = n - 1},
                                  name \in {NameM, NameN}}

ModuleSectors(names, blocks) ==
    [k \in 1..blocks |-> FileSector(1, 10 + k, IF k = 1 THEN names ELSE <<>>)]

\* Module files: cdi_a with one or more modules, alone or followed by
\* cdi_b, each file of one or two blocks with its modules in the first.
ModuleImages ==
    {Image(0, 0, SystemIdentifier, 1, 1, 2048,
           <<FileEntry(ModuleFileA, 3, 2048 * blocks)>>
           \o (IF namesB = <<>> THEN <<>>
               ELSE <<FileEntry(ModuleFileB, 3 + blocks, 2048 * blocks)>>),
           ModuleSectors(namesA, blocks)
           \o (IF namesB = <<>> THEN <<>> ELSE ModuleSectors(namesB, blocks))) :
        namesA \in NameLists(MaxModules) \ {<<>>}, namesB \in NameLists(MaxModules),
        blocks \in {1, 2}}

Images == FileImages \cup PairImages \cup VolumeImages \cup ModuleImages

NoFileSystem == [sectors |-> <<>>, firstIndex |-> 0, files |-> <<>>, modules |-> <<>>]

MaxBeyond == 2

ImageInit ==
    /\ pc = "ready"
    /\ call = "none"
    /\ input = StructStream(<<>>, 0)
    /\ stream = input
    /\ tree = NoTree
    /\ realFile = NoFile
    /\ rfs = NoRfs
    /\ got = NoRecord
    /\ child = NoStream
    /\ last = NoRead
    /\ \E v \in Images : cdi = [op |-> "none", image |-> v]

\* fs = CdiFileSystem(fileBytes)
Construct ==
    /\ pc = "ready"
    /\ pc' = IF CdiFileSystem(ImageBlob(cdi.image), ImageMetadata(cdi.image)).ok
             THEN "built" ELSE "failed"
    /\ call' = "CdiFileSystem"
    /\ cdi' = [op    |-> "CdiFileSystem",
               image |-> cdi.image,
               ok    |-> CdiFileSystem(ImageBlob(cdi.image), ImageMetadata(cdi.image)).ok,
               err   |-> IF CdiFileSystem(ImageBlob(cdi.image), ImageMetadata(cdi.image)).ok
                         THEN ""
                         ELSE CdiFileSystem(ImageBlob(cdi.image), ImageMetadata(cdi.image)).err,
               fs    |-> IF CdiFileSystem(ImageBlob(cdi.image), ImageMetadata(cdi.image)).ok
                         THEN CdiFileSystem(ImageBlob(cdi.image), ImageMetadata(cdi.image)).val
                         ELSE NoFileSystem,
               who   |-> <<>>,
               ret   |-> <<>>]
    /\ UNCHANGED <<input, stream, tree, realFile, rfs, got, child, last>>

\* fs.files[name].getBytes()
GetBytes ==
    /\ pc = "built"
    /\ \E i \in 1..Len(cdi.fs.files) :
          cdi' = [cdi EXCEPT !.op = "getBytes",
                             !.who = cdi.fs.files[i][1],
                             !.ret = FileGetBytes(cdi.fs.files[i][2]).ret,
                             !.fs.files = DictSet(@, cdi.fs.files[i][1],
                                                  FileGetBytes(cdi.fs.files[i][2]).file)]
    /\ call' = "getBytes"
    /\ UNCHANGED <<pc, input, stream, tree, realFile, rfs, got, child, last>>

\* fs.getSector(minute, second, frame), for the time-codes of the image and
\* those up to MaxBeyond frames before its first and after its last sector
GetSector ==
    /\ pc = "built"
    /\ \E index \in (cdi.fs.firstIndex - MaxBeyond)
                    ..(cdi.fs.firstIndex + Len(cdi.fs.sectors) - 1 + MaxBeyond) :
          cdi' = [cdi EXCEPT !.op = "getSector",
                             !.who = TimeCode(index),
                             !.ret = getSector(cdi.fs, TimeCode(index).minute,
                                               TimeCode(index).second,
                                               TimeCode(index).frame)]
    /\ call' = "getSector"
    /\ UNCHANGED <<pc, input, stream, tree, realFile, rfs, got, child, last>>

ImageNext == Construct \/ GetBytes \/ GetSector

ImageSpec == ImageInit /\ [][ImageNext]_vars

ImageBuilt == pc = "built"

FileAt(i) == cdi.fs.files[i][2]

\* C22: every file exposed by CdiFileSystem.files owns the
\* ceil(size/blockSize) sectors starting at startBlock, its final block is
\* truncated to the remaining byte count, and getBytes() returns the
\* concatenation of the blocks, of total length exactly the declared size
\* (size 0 and exact multiples of blockSize included).
FileBytesMatchDeclaredSize ==
    ImageBuilt =>
        \A i \in 1..Len(cdi.fs.files) :
            /\ Len(FileAt(i).sectors) = Ceil(FileAt(i).size, cdi.fs.volume.blockSize)
            /\ \A k \in 1..Len(FileAt(i).sectors) :
                  FileAt(i).sectors[k] = cdi.fs.sectors[FileAt(i).startBlock + k]
            /\ FileAt(i).size % cdi.fs.volume.blockSize # 0 =>
                  Len(FileAt(i).blocks[Len(FileAt(i).blocks)])
                      = FileAt(i).size % cdi.fs.volume.blockSize
            /\ FileGetBytes(FileAt(i)).ret = Flatten(FileAt(i).blocks)
            /\ Len(FileGetBytes(FileAt(i)).ret) = FileAt(i).size
            /\ (cdi.op = "getBytes" /\ cdi.who = FileAt(i).name) =>
                  Len(cdi.ret) = FileAt(i).size

ImageRead == cdi.op # "none"

\* C23: CdiFileSystem construction fails, exposing no files, whenever the
\* volume descriptor declares a non-default character set, declares
\* multiple volumes (a volumes-in-album or volume-sequence value other
\* than a single volume), or carries a system identifier other than
\* 'CD-RTOS'.
UnsupportedVolumeRejected ==
    (/\ ImageRead
     /\ \/ cdi.image.charSetFlag # 0
        \/ cdi.image.volumesInAlbum # 1
        \/ cdi.image.volumeSeqNumber # 1
        \/ cdi.image.systemIdentifier # SystemIdentifier)
    => (pc = "failed" /\ ~cdi.ok /\ cdi.fs.files = <<>>)

(***************************************************************************)
(* The two lazy caches under two callers.  CdiFile.getBytes and            *)
(* ResourceFileSystemFolder.getRecord take no lock, so a second caller     *)
(* may run between any two statements of the first: each statement is one  *)
(* step, and a caller keeps the value it computed in data until it stores  *)
(* it.  computed lists the keys whose value was computed, in order.        *)
(***************************************************************************)
Callers == {1, 2}

Idle == [at |-> "idle", index |-> 0, kind |-> "none", data |-> <<>>]

Returned2(key, ok, ret) == [at |-> "returned", key |-> key, ok |-> ok, ret |-> ret]

CachedFolder == rfs.subFiles[1][2]

CacheInit ==
    /\ pc = "done"
    /\ call = "none"
    /\ \E b \in RecordMaps : input = StructStream(b, 0)
    /\ realFile = CdiFile(MixedKinds)
    /\ stream = ResourceFileSystem(input, realFile).s
    /\ tree = NoTree
    /\ rfs = Built(ResourceFileSystem(input, realFile))
    /\ got = NoRecord
    /\ child = NoStream
    /\ last = [op       |-> "callers",
               callers  |-> [c \in Callers |-> Idle],
               computed |-> <<>>]
    /\ cdi = [op   |-> "cache",
              file |-> [cachedBytes |-> <<>>, blocks |-> DataOf(realFile.sectors)]]

\* if self._cachedBytes == None
BytesCheck ==
    \E c \in Callers :
        /\ last.callers[c].at = "idle"
        /\ last' = [last EXCEPT !.callers[c].at =
                       IF cdi.file.cachedBytes = <<>> THEN "join" ELSE "returnBytes"]
        /\ call' = "getBytes"
        /\ UNCHANGED <<pc, input, stream, tree, realFile, rfs, got, child, cdi>>

\* b''.join(self.blocks)
BytesJoin ==
    \E c \in Callers :
        /\ last.callers[c].at = "join"
        /\ last' = [last EXCEPT !.callers[c].at = "storeBytes",
                                !.callers[c].data = Flatten(cdi.file.blocks),
                                !.computed = Append(@, <<"bytes">>)]
        /\ UNCHANGED <<pc, call, input, stream, tree, realFile, rfs, got, child, cdi>>

\* self._cachedBytes = ...
BytesStore ==
    \E c \in Callers :
        /\ last.callers[c].at = "storeBytes"
        /\ cdi' = [cdi EXCEPT !.file.cachedBytes = <<last.callers[c].data>>]
        /\ last' = [last EXCEPT !.callers[c].at = "returnBytes"]
        /\ UNCHANGED <<pc, call, input, stream, tree, realFile, rfs, got, child>>

\* return self._cachedBytes
BytesReturn ==
    \E c \in Callers :
        /\ last.callers[c].at = "returnBytes"
        /\ last' = [last EXCEPT !.callers[c] =
                       Returned2(<<"bytes">>, TRUE, cdi.file.cachedBytes[1])]
        /\ UNCHANGED <<pc, call, input, stream, tree, realFile, rfs, got, child, cdi>>

\* getRecord(index, kind): if kind not in self._cachedRecordData
RecordCheckKind ==
    \E c \in Callers, index \in 0..MaxIndex, kind \in {"video", "data"} :
        /\ last.callers[c].at = "idle"
        /\ last' = [last EXCEPT !.callers[c] =
                       [at    |-> IF DictHas(CachedFolder.cachedRecordData, kind)
                                  THEN "checkIndex" ELSE "storeKind",
                        index |-> index, kind |-> kind, data |-> <<>>]]
        /\ call' = "getRecord"
        /\ UNCHANGED <<pc, input, stream, tree, realFile, rfs, got, child, cdi>>

\* self._cachedRecordData[kind] = {}
RecordStoreKind ==
    \E c \in Callers :
        /\ last.callers[c].at = "storeKind"
        /\ rfs' = [rfs EXCEPT !.subFiles[1][2].cachedRecordData =
                      DictSet(@, last.callers[c].kind, <<>>)]
        /\ last' = [last EXCEPT !.callers[c].at = "checkIndex"]
        /\ UNCHANGED <<pc, call, input, stream, tree, realFile, got, child, cdi>>

\* if index not in self._cachedRecordData[kind]
RecordCheckIndex ==
    \E c \in Callers :
        /\ last.callers[c].at = "checkIndex"
        /\ last' = [last EXCEPT !.callers[c].at =
                       IF DictHas(DictGet(CachedFolder.cachedRecordData, last.callers[c].kind),
                                  last.callers[c].index)
                       THEN "returnRecord" ELSE "read"]
        /\ UNCHANGED <<pc, call, input, stream, tree, realFile, rfs, got, child, cdi>>

\* sizes = ..., start = ..., size = ..., data = self.getBytes(...)
RecordCompute ==
    \E c \in Callers :
        /\ last.callers[c].at = "read"
        /\ last' = [last EXCEPT
                       !.callers[c] =
                           IF RecordLookup(CachedFolder, last.callers[c].index,
                                           last.callers[c].kind).ok
                           THEN [last.callers[c] EXCEPT
                                    !.at = "storeRecord",
                                    !.data = RecordLookup(CachedFolder, last.callers[c].index,
                                                          last.callers[c].kind).val]
                           ELSE Returned2(<<last.callers[c].kind, last.callers[c].index>>, FALSE,
                                          RecordLookup(CachedFolder, last.callers[c].index,
                                                       last.callers[c].kind).val),
                       !.computed =
                           IF RecordLookup(CachedFolder, last.callers[c].index,
                                           last.callers[c].kind).ok
                           THEN Append(@, <<last.callers[c].kind, last.callers[c].index>>)
                           ELSE @]
        /\ UNCHANGED <<pc, call, input, stream, tree, realFile, rfs, got, child, cdi>>

\* self._cachedRecordData[kind][index] = data
RecordStoreData ==
    \E c \in Callers :
        /\ last.callers[c].at = "storeRecord"
        /\ rfs' = [rfs EXCEPT !.subFiles[1][2] =
                      RecordStore(@, last.callers[c].index, last.callers[c].kind,
                                  last.callers[c].data).f]
        /\ last' = [last EXCEPT !.callers[c].at = "returnRecord"]
        /\ UNCHANGED <<pc, call, input, stream, tree, realFile, got, child, cdi>>

\* return self._cachedRecordData[kind][index]: KeyError when the entry is
\* not there any more
RecordReturn ==
    \E c \in Callers :
        /\ last.callers[c].at = "returnRecord"
        /\ last' = [last EXCEPT !.callers[c] =
                       IF DictHas(DictGet(CachedFolder.cachedRecordData, @.kind), @.index)
                       THEN Returned2(<<@.kind, @.index>>, TRUE,
                                      DictGet(DictGet(CachedFolder.cachedRecordData, @.kind),
                                              @.index))
                       ELSE Returned2(<<@.kind, @.index>>, FALSE, "KeyError")]
        /\ UNCHANGED <<pc, call, input, stream, tree, realFile, rfs, got, child, cdi>>

CacheNext ==
    \/ BytesCheck
    \/ BytesJoin
    \/ BytesStore
    \/ BytesReturn
    \/ RecordCheckKind
    \/ RecordStoreKind
    \/ RecordCheckIndex
    \/ RecordCompute
    \/ RecordStoreData
    \/ RecordReturn

CacheSpec == CacheInit /\ [][CacheNext]_vars

BothReturned(key) ==
    \A c \in Callers : last.callers[c].at = "returned" /\ last.callers[c].key = key

\* C24: the lazy caches (CdiFile.getBytes, ResourceFileSystemFolder.getRecord)
\* compute the value for a key at most once, also when two callers request
\* the same key and interleave between the cache-miss check and the store;
\* every caller receives the same value.
CacheComputesOnce ==
    /\ \A i, j \in 1..Len(last.computed) :
          last.computed[i] = last.computed[j] => i = j
    /\ \A key \in {<<"bytes">>} \cup {<<kind, index>> : kind \in {"video", "data"},
                                                       index \in 0..MaxIndex} :
          BothReturned(key) => last.callers[1] = last.callers[2]

(***************************************************************************)
(* Game: decoding the cells as a batch.  A game is the names of the        *)
(* folders of the overworld and of the underworld, in file order, and the  *)
(* two cell caches.  What decoding one cell does is represented by its     *)
(* outcome: corrupt holds the cells whose decoding raises.                 *)
(***************************************************************************)
CellOf(name, isOverworld) == [name |-> name, isOverworld |-> isOverworld]

Has(names, name) == \E k \in 1..Len(names) : names[k] = name

\* Game._parseCell
parseCell(game, name, isOverworld) ==
    IF CellOf(name, isOverworld) \in game.corrupt THEN Fail("Exception")
    ELSE Value(CellOf(name, isOverworld))

CellResult(ok, val, game) == [ok |-> ok, val |-> val, game |-> game]

\* parsed[name] = self._parseCell(...); return parsed[name]
CellParsed(game, name, isOverworld, cell) ==
    IF ~cell.ok THEN CellResult(FALSE, cell.err, game)
    ELSE CellResult(TRUE, cell.val,
                    IF isOverworld
                    THEN [game EXCEPT !.overworldCells = DictSet(@, name, cell.val)]
                    ELSE [game EXCEPT !.underworldCells = DictSet(@, name, cell.val)])

CellCached(game, name, isOverworld, parsed) ==
    IF DictHas(parsed, name) THEN CellResult(TRUE, DictGet(parsed, name), game)
    ELSE CellParsed(game, name, isOverworld, parseCell(game, name, isOverworld))

\* Game.getCell(name, isOverworld) for a given world
getCell(game, name, isOverworld) ==
    IF ~Has(IF isOverworld THEN game.over ELSE game.under, name)
    THEN CellResult(FALSE, "Exception", game)
    ELSE CellCached(game, name, isOverworld,
                    IF isOverworld THEN game.overworldCells ELSE game.underworldCells)

\* The cells Game.cells asks for, in order.
CellItems(game, duplicates) ==
    [k \in 1..Len(game.over) |-> CellOf(game.over[k], TRUE)]
    \o SelectSeq([k \in 1..Len(game.under) |-> CellOf(game.under[k], FALSE)],
                 LAMBDA c : duplicates \/ ~Has(game.over, c.name))

RECURSIVE TakeCells(_, _, _)

CellTaken(items, produced, r) ==
    IF ~r.ok THEN [ok |-> FALSE, err |-> r.val, game |-> r.game, produced |-> produced]
    ELSE TakeCells(r.game, Tail(items), Append(produced, r.val))

\* Iterating Game.cells to its end: an exception raised by getCell leaves
\* the generator through its finally clause and ends the iteration.
TakeCells(game, items, produced) ==
    IF items = <<>> THEN [ok |-> TRUE, err |-> "", game |-> game, produced |-> produced]
    ELSE CellTaken(items, produced, getCell(game, items[1].name, items[1].isOverworld))

cells(game, duplicates) == TakeCells(game, CellItems(game, duplicates), <<>>)

\* Game.parseAllCells: for _ in self.cells(): pass
parseAllCells(game, refresh) ==
    cells(IF refresh THEN [game EXCEPT !.overworldCells = <<>>, !.underworldCells = <<>>]
          ELSE game,
          TRUE)

\* Game.assignVoiceLines, as far as it asks for cells: all of them, then
\* the last in voice order.
VoiceLinesAssigned(parsed) ==
    IF ~parsed.ok THEN parsed
    ELSE IF CellItems(parsed.game, FALSE) = <<>>
    THEN [parsed EXCEPT !.ok = FALSE, !.err = "IndexError"]
    ELSE parsed

assignVoiceLines(game) == VoiceLinesAssigned(parseAllCells(game, FALSE))

\* Game.export: produced lists the cells handed to Cell.export.
Exported(assigned) ==
    IF ~assigned.ok THEN [assigned EXCEPT !.produced = <<>>]
    ELSE cells(assigned.game, TRUE)

export(game) == Exported(assignVoiceLines(game))

MaxCells == 2

CellName(n) == <<96 + n>>

\* The sequences without repetition of up to n cell names.
RECURSIVE CellNames(_)
CellNames(n) ==
    IF n = 0 THEN {<<>>}
    ELSE CellNames(n - 1)
         \cup {Append(ns, CellName(k)) :
                  ns \in {l \in CellNames(n - 1) : Len(l) = n - 1},
                  k \in {j \in 1..MaxCells : TRUE}}

Distinct(names) == \A i, j \in 1..Len(names) : names[i] = names[j] => i = j

Games ==
    {[over |-> over, under |-> under, corrupt |-> corrupt,
      overworldCells |-> <<>>, underworldCells |-> <<>>] :
        over \in {ns \in CellNames(MaxCells) : Distinct(ns)},
        under \in {ns \in CellNames(MaxCells) : Distinct(ns)},
        corrupt \in {{}} \cup {{CellOf(CellName(k), w)} : k \in 1..MaxCells, w \in BOOLEAN}}

BatchInit ==
    /\ pc = "ready"
    /\ call = "none"
    /\ input = StructStream(<<>>, 0)
    /\ stream = input
    /\ tree = NoTree
    /\ realFile = NoFile
    /\ rfs = NoRfs
    /\ got = NoRecord
    /\ child = NoStream
    /\ last = NoRead
    /\ \E game \in Games :
          /\ \A c \in game.corrupt :
                Has(IF c.isOverworld THEN game.over ELSE game.under, c.name)
          /\ cdi = [op |-> "none", before |-> game, game |-> game, ok |-> TRUE,
                    err |-> "", produced |-> <<>>]

\* list(game.cells(duplicates))
Cells ==
    /\ \E duplicates \in BOOLEAN :
          cdi' = [op       |-> "cells",
                  before   |-> cdi.game,
                  game     |-> cells(cdi.game, duplicates).game,
                  ok       |-> cells(cdi.game, duplicates).ok,
                  err      |-> cells(cdi.game, duplicates).err,
                  produced |-> cells(cdi.game, duplicates).produced]
    /\ call' = "cells"
    /\ UNCHANGED <<pc, input, stream, tree, realFile, rfs, got, child, last>>

\* game.parseAllCells(refresh)
ParseAllCells ==
    /\ \E refresh \in BOOLEAN :
          cdi' = [op       |-> "parseAllCells",
                  before   |-> cdi.game,
                  game     |-> parseAllCells(cdi.game, refresh).game,
                  ok       |-> parseAllCells(cdi.game, refresh).ok,
                  err      |-> parseAllCells(cdi.game, refresh).err,
                  produced |-> <<>>]
    /\ call' = "parseAllCells"
    /\ UNCHANGED <<pc, input, stream, tree, realFile, rfs, got, child, last>>

\* game.export(root)
Export ==
    /\ cdi' = [op       |-> "export",
               before   |-> cdi.game,
               game     |-> export(cdi.game).game,
               ok       |-> export(cdi.game).ok,
               err      |-> export(cdi.game).err,
               produced |-> export(cdi.game).produced]
    /\ call' = "export"
    /\ UNCHANGED <<pc, input, stream, tree, realFile, rfs, got, child, last>>

BatchNext == Cells \/ ParseAllCells \/ Export

BatchSpec == BatchInit /\ [][BatchNext]_vars

Decodable(c) ==
    /\ Has(IF c.isOverworld THEN cdi.game.over ELSE cdi.game.under, c.name)
    /\ c \notin cdi.game.corrupt

InCache(c) ==
    DictHas(IF c.isOverworld THEN cdi.game.overworldCells ELSE cdi.game.underworldCells,
            c.name)

AllCells == {CellOf(CellName(k), w) : k \in 1..MaxCells, w \in BOOLEAN}

\* C25: when the cells are decoded as a batch (Game.cells,
\* Game.parseAllCells, Game.export), a failure while decoding one item does
\* not stop the remaining items from being decoded: every item that can be
\* decoded is produced.
BatchDecodesEveryDecodableCell ==
    /\ cdi.op \in {"parseAllCells", "export"} =>
          \A c \in AllCells : Decodable(c) => InCache(c)
    /\ cdi.op = "export" =>
          \A c \in AllCells : Decodable(c) => Has(cdi.produced, c)



\* C26: in every successfully decoded Node the keys of the child map are
\* pairwise distinct and the map has exactly one entry per element of the
\* child list, in child-list order: no child is dropped or replaced by
\* another child when two entries of the name list decode to the same string.
ChildMapKeepsEveryChild ==
    DecodedNode =>
        /\ \A i, j \in 1..Len(tree.node.children) :
              tree.node.children[i][1] = tree.node.children[j][1] => i = j
        /\ Len(tree.node.children) = Len(tree.node.childList)
        /\ \A i \in 1..Len(tree.node.children) :
              tree.node.children[i][2] = tree.node.childList[i]

\* The module files of the image and the modules each was written with.
ModuleFiles ==
    {i \in 1..Len(cdi.image.files) :
        PySlice(cdi.image.files[i].name, 0, 4) = ModuleFilePrefix}

Written(i) == cdi.image.sectors[cdi.image.files[i].startBlock - cdi.image.lead - 2].modules

Shared(name) ==
    \E i1, i2 \in ModuleFiles :
        \E j1 \in 1..Len(Written(i1)), j2 \in 1..Len(Written(i2)) :
            /\ <<i1, j1>> # <<i2, j2>>
            /\ Written(i1)[j1] = name
            /\ Written(i2)[j2] = name

RECURSIVE Total(_)
Total(files) ==
    IF files = {} THEN 0
    ELSE Len(Written(CHOOSE i \in files : TRUE))
         + Total(files \ {CHOOSE i \in files : TRUE})

\* C27: after _identifyModules every module that was found is still
\* retrievable from the modules map: when two or more modules share a name,
\* in different files or in the same file, each is stored under the key
\* 'parentFile:name' and no module's entry is replaced by another module.
EveryModuleRetrievable ==
    (ImageRead /\ ModuleFiles # {}) =>
        /\ cdi.ok
        /\ Len(cdi.fs.modules) = Total(ModuleFiles)
        /\ \A i \in ModuleFiles : \A j \in 1..Len(Written(i)) :
              \E e \in 1..Len(cdi.fs.modules) :
                  /\ cdi.fs.modules[e][2].name = Written(i)[j]
                  /\ cdi.fs.modules[e][2].parentFile = cdi.image.files[i].name
                  /\ cdi.fs.modules[e][1] =
                        IF Shared(Written(i)[j])
                        THEN cdi.image.files[i].name \o <<58>> \o Written(i)[j]
                        ELSE Written(i)[j]

SectorAsked == pc = "built" /\ cdi.op = "getSector"

AskedIndex == absoluteTimeToIndex(cdi.who.minute, cdi.who.second, cdi.who.frame)

InImage ==
    /\ AskedIndex >= cdi.fs.firstIndex
    /\ AskedIndex < cdi.fs.firstIndex + Len(cdi.fs.sectors)

\* C28: getSector(m, s, f), on an image whose sectors are contiguous in
\* time-code order, returns the sector whose time-code is (m, s, f) when
\* the image contains it, and fails, never returning a sector with another
\* time-code, when (m, s, f) lies before the first sector of the image or
\* after its last.
SectorOfTimeCodeOrFailure ==
    SectorAsked =>
        IF InImage
        THEN /\ cdi.ret.ok
             /\ cdi.ret.val.minute = cdi.who.minute
             /\ cdi.ret.val.second = cdi.who.second
             /\ cdi.ret.val.frame = cdi.who.frame
        ELSE ~cdi.ret.ok

\* The tree the constructor decoded from its input, and its simplify().
Decoded == parseFromStream(input)

Simplified == simplify(Decoded.node)

FileSystemTried == pc = "done" /\ call = "ResourceFileSystem" /\ Decoded.ok

\* C29: simplify() returns a plain structure for every tree that
\* parseFromStream can return, a mapping for a Node and the element list
\* for a Set or an Array, and does not raise when the tree is, or contains
\* as a child, a generic node with an unknown tag: ResourceFileSystem
\* construction is not aborted by an unknown-tag child of the root.
SimplifyTotal ==
    FileSystemTried =>
        /\ Simplified.ok
        /\ Decoded.node.kind = "ResourceTreeNode" => Simplified.val.kind = "dict"
        /\ Decoded.node.kind \in {"ResourceTreeSet", "ResourceTreeArray"} =>
              Simplified.val = [kind |-> "list", elements |-> Decoded.node.elements]
        /\ rfs.ok \/ rfs.err # "NotImplementedError"

(***************************************************************************)
(* A client of one StructStream that also passes negative counts to        *)
(* takeRaw and takeFork.                                                   *)
(***************************************************************************)
\* The cursor stays within MaxRead bytes of the start of the buffer.
ReachBack(s) == s.cursor >= 0 - MaxRead

\* stream.takeRaw(count, fillZeros), count of either sign
TakeRawSigned ==
    /\ pc = "ready"
    /\ \E count \in (-MaxRead)..MaxRead, fillZeros \in BOOLEAN :
          /\ Reach(takeRaw(stream, count, fillZeros).s)
          /\ ReachBack(takeRaw(stream, count, fillZeros).s)
          /\ stream' = takeRaw(stream, count, fillZeros).s
          /\ last' = [op |-> "takeRaw", width |-> count, fillZeros |-> fillZeros,
                      pre |-> stream, ok |-> TRUE,
                      ret |-> takeRaw(stream, count, fillZeros).ret]
    /\ call' = "takeRaw"
    /\ UNCHANGED <<pc, input, tree, realFile, rfs, got, child, cdi>>

\* stream.takeFork(count, fillZeros), count of either sign
TakeForkSigned ==
    /\ pc = "ready"
    /\ \E count \in (-MaxRead)..MaxRead, fillZeros \in BOOLEAN :
          /\ Reach(takeFork(stream, count, fillZeros).s)
          /\ ReachBack(takeFork(stream, count, fillZeros).s)
          /\ stream' = takeFork(stream, count, fillZeros).s
          /\ last' = [op |-> "takeFork", width |-> count, fillZeros |-> fillZeros,
                      pre |-> stream, ok |-> TRUE,
                      ret |-> takeFork(stream, count, fillZeros).ret]
    /\ call' = "takeFork"
    /\ UNCHANGED <<pc, input, tree, realFile, rfs, got, child, cdi>>

\* stream.take(formatStr, fillZeros) after reads of either sign
TakeSigned ==
    /\ pc = "ready"
    /\ \E fmt \in Formats, fillZeros \in BOOLEAN :
          /\ Reach(take(stream, fmt, fillZeros).s)
          /\ ReachBack(take(stream, fmt, fillZeros).s)
          /\ stream' = take(stream, fmt, fillZeros).s
          /\ last' = [op |-> "take", width |-> calcsize(fmt), fillZeros |-> fillZeros,
                      pre |-> stream, ok |-> take(stream, fmt, fillZeros).ok,
                      ret |-> take(stream, fmt, fillZeros).val]
    /\ call' = "take"
    /\ UNCHANGED <<pc, input, tree, realFile, rfs, got, child, cdi>>

SignedNext ==
    \/ TakeRawSigned
    \/ TakeForkSigned
    \/ TakeSigned
    \/ TakeNullTermString
    \/ Skip
    \/ Seek

SignedSpec == StreamInit /\ [][SignedNext]_vars

\* C30: after any sequence of StructStream operations (take, takeRaw,
\* takeFork, takeNullTermString, skip, seek, with any integer arguments,
\* negative counts included) the cursor position is >= 0 and the remaining
\* length reported by len() equals max(0, bufferLength - position), hence
\* 0 <= remaining <= bufferLength.
CursorNeverNegative ==
    /\ stream.cursor >= 0
    /\ len(stream) = Max(0, Len(stream.data) - stream.cursor)
    /\ 0 <= len(stream)
    /\ len(stream) <= Len(stream.data)

====
